---- MODULE Spec2Model ----
(***************************************************************************)
(* A model of uhyve's host side.                                           *)
(*                                                                         *)
(*   Spec     the paravirtual TAP path: UhyveNetwork::new, its writer and  *)
(*            reader threads, the two shared queues, and a guest that      *)
(*            keeps to the queue protocol (src/linux/uhyve.rs, 49-121).    *)
(*   SpecNew  the configuration record's GuestMemorySize and CpuCount      *)
(*            (src/params.rs) and the construction of the VM, Uhyve::new   *)
(*            (src/linux/uhyve.rs, 164-288), step by step against a host   *)
(*            whose calls may each succeed or fail.                        *)
(*                                                                         *)
(* Memory sizes and addresses are counted in MiB (2^20 bytes), the unit of *)
(* every size the code compares them with.                                 *)
(***************************************************************************)
EXTENDS Integers, Sequences, FiniteSets, TLC

(***************************************************************************)
(* Bounds.  The ring size and the slot size are set in consts.rs and       *)
(* shared_queue.rs, which are not among the sources; the threads are       *)
(* written for any ring size, and the model runs them on a small ring.     *)
(***************************************************************************)
UHYVE_QUEUE_SIZE == 2
\* bytes of payload a slot can hold
MTU == 2
\* frames the guest enqueues in the TX queue in one run
MaxTx == 3
\* frames the TAP device delivers to the reader in one run
MaxRx == 3

VARIABLES
    main_pc,     \* UhyveNetwork::new: "spawn_writer", "spawn_reader", "return", "returned"
    rx_queue,    \* the RX SharedQueue's counters [written, read]
    rx_inner,    \* the RX SharedQueue's slots: idx -> [len, data]
    tx_queue,    \* the TX SharedQueue's counters [written, read]
    tx_inner,    \* the TX SharedQueue's slots: idx -> [len, data]
    chan,        \* messages held by sync_channel(1): 0 or 1
    w_pc,        \* the writer thread's position
    w_written,   \* the writer's local `written`
    w_read,      \* the writer's local `read`
    w_len,       \* the writer's local `len`
    w_iter,      \* loop iterations the writer has completed (capped at 1)
    r_pc,        \* the reader thread's position
    r_written,   \* the reader's local `written`
    r_read,      \* the reader's local `read`
    r_len,       \* the value iface_reader.recv returned
    g_pc,        \* the guest's TX producer: "idle" or "nudge"
    evtfd,       \* writes of 1 made to the event FD
    reader_incs, \* increments of RX `written` made by the reader
    tap_in,      \* frames the TAP device has delivered, in order
    tap_out,     \* frames sent to the TAP device, in order
    tx_enq,      \* frames the guest has enqueued in the TX queue, in order
    rx_clobbered, \* TRUE once the reader has stored into a slot holding an unconsumed frame
    c_memory,    \* how the configuration's memory size is given: Default, TryFrom<Byte>, FromStr
    c_cpus,      \* the u32 the configuration's CpuCount is built from
    c_gdb_port,  \* params.gdb_port: "None" or "Some"
    c_nic,       \* params.nic: "None" or "Some"
    c_advice,    \* [thp, ksm]: params.thp and params.ksm
    n_pc,        \* the step construction stands at (the step that failed, once it has)
    n_result,    \* "running", or how construction ended: "Ok", "Err", "panic"
    n_error,     \* the error returned or the panic message
    n_params,    \* the validated [memory_size, cpu_count]
    n_mem,       \* the MmapMemory [flags, memory_size, guest_address, host_address]
    n_regions,   \* the regions set_user_memory_region has registered
    n_host,      \* what the host answered to the TSC-deadline and IRQ-FD enable calls
    n_device,    \* uhyve_device: "None" or "Some"
    n_tables,    \* the guest's GDT and page tables: page address -> index -> 64-bit entry
    l_pc,        \* the statement load_kernel stands at (the one that failed, once it has)
    l_result,    \* "idle", "running", or how load_kernel ended: "Ok", "Err", "panic"
    l_error,     \* the LoadKernelError returned or the panic message
    l_image,     \* the kernel image at kernel_path, as goblin parses it
    l_verbose,   \* Uhyve.verbose
    l_ph,        \* program headers try_for_each has visited
    l_rela,      \* dynrelas for_each has visited
    l_offset,    \* Uhyve.offset
    l_entry_point, \* Uhyve.entry_point
    l_image_size, \* load_kernel's local `image_size`
    l_tls_info,  \* load_kernel's local `tls_info`
    l_mem,       \* guest memory bytes load_kernel has stored: address -> byte
    l_raw,       \* the RawBootInfo at BOOT_INFO_ADDR
    l_boot_info, \* Uhyve.boot_info: "null" or "BOOT_INFO_ADDR"
    l_writes,    \* the stores made to guest memory by the host, in order
    l_cpus,      \* the vCPUs create_cpu has returned: [id, tx, virtio_device]
    l_seen,      \* the method of the Vm called last and the value it returned
    h_pc,        \* the vCPU: "guest" (the guest runs), "write" (in write's loop), "done" (the handler has returned)
    h_op,        \* the hypercall handled last
    h_block,     \* the hypercall's argument block in guest memory
    h_return,    \* what the handler returned: "Ok" for a normal return, "Err" for an error
    h_sys,       \* the host system call the handler made last: [name, result]
    h_ptrs,      \* the guest pointers the handler used: [name, ptr, via, host]
    h_local,     \* write's local `bytes_written`
    h_copied,    \* the strings cmdval stored, [host, bytes]; the bytes write's host calls accepted, [host, call]
    h_env,       \* the host process: [path, args, vars]
    h_sizes      \* the block of the guest's last CMDSIZE, which the guest keeps

vars == <<main_pc, rx_queue, rx_inner, tx_queue, tx_inner, chan,
          w_pc, w_written, w_read, w_len, w_iter,
          r_pc, r_written, r_read, r_len,
          g_pc, evtfd, reader_incs, tap_in, tap_out, tx_enq, rx_clobbered,
          c_memory, c_cpus, c_gdb_port, c_nic, c_advice,
          n_pc, n_result, n_error, n_params, n_mem, n_regions, n_host, n_device, n_tables,
          l_pc, l_result, l_error, l_image, l_verbose, l_ph, l_rela, l_offset, l_entry_point,
          l_image_size, l_tls_info, l_mem, l_raw, l_boot_info, l_writes, l_cpus, l_seen,
          h_pc, h_op, h_block, h_return, h_sys, h_ptrs, h_local, h_copied, h_env, h_sizes>>

queues  == <<rx_queue, rx_inner, tx_queue, tx_inner>>
wlocals == <<w_pc, w_written, w_read, w_len, w_iter>>
rlocals == <<r_pc, r_written, r_read, r_len>>
ghosts  == <<evtfd, reader_incs, tap_in, tap_out, tx_enq, rx_clobbered>>
netvars == <<main_pc, queues, chan, wlocals, rlocals, g_pc, ghosts>>
config  == <<c_memory, c_cpus, c_gdb_port, c_nic, c_advice>>
newvars == <<config, n_pc, n_result, n_error, n_params, n_mem, n_regions, n_host, n_device,
             n_tables>>
loadvars == <<l_pc, l_result, l_error, l_image, l_verbose, l_ph, l_rela, l_offset, l_entry_point,
              l_image_size, l_tls_info, l_mem, l_raw, l_boot_info, l_writes, l_cpus, l_seen>>
hypervars == <<h_pc, h_op, h_block, h_return, h_sys, h_ptrs, h_local, h_copied, h_env, h_sizes>>

(***************************************************************************)
(* Frames and slots.                                                       *)
(***************************************************************************)
\* The k-th frame of a stream, n bytes long: every byte carries k, so that
\* two frames of a run never compare equal.
Frame(k, n) == [i \in 1..n |-> k]

\* The lengths a run may give its k-th frame: the frames of the first lap
\* round the ring fill their slots, those of the later laps have any length,
\* so that a short frame comes to lie in a slot that held a longer one.
FrameLens(k) == IF k <= UHYVE_QUEUE_SIZE THEN {MTU} ELSE 1..MTU

\* A slot as mmap hands it out: zeroed.
EmptySlot == [len |-> 0, data |-> [i \in 1..MTU |-> 0]]

\* The buffer after a frame is copied to its start: the bytes behind the
\* frame keep what they held.
StoreFrame(data, f) == [i \in 1..MTU |-> IF i <= Len(f) THEN f[i] ELSE data[i]]

\* data[0..len]
Payload(slot, len) == SubSeq(slot.data, 1, len)

\* The slot a counter names.
SlotOf(counter) == counter % UHYVE_QUEUE_SIZE

\* The counters of the frames a queue holds: [read, written).
Pending(q) == {c \in 0..(MaxTx + MaxRx) : q.read <= c /\ c < q.written}

\* SharedQueue::init (shared_queue.rs): both counters start at zero.
QueueInit(q) == [q EXCEPT !.written = 0, !.read = 0]

(***************************************************************************)
(* Init: UhyveNetwork::new is entered with guest memory freshly mapped     *)
(* (zeroed), the channel created and no thread spawned.                    *)
(***************************************************************************)
NetInit ==
    /\ main_pc = "spawn_writer"
    /\ rx_queue = [written |-> 0, read |-> 0]
    /\ tx_queue = [written |-> 0, read |-> 0]
    /\ rx_inner = [i \in 0..(UHYVE_QUEUE_SIZE - 1) |-> EmptySlot]
    /\ tx_inner = [i \in 0..(UHYVE_QUEUE_SIZE - 1) |-> EmptySlot]
    /\ chan = 0
    /\ w_pc = "unborn" /\ w_written = 0 /\ w_read = 0 /\ w_len = 0 /\ w_iter = 0
    /\ r_pc = "unborn" /\ r_written = 0 /\ r_read = 0 /\ r_len = 0
    /\ g_pc = "idle"
    /\ evtfd = 0 /\ reader_incs = 0
    /\ tap_in = <<>> /\ tap_out = <<>> /\ tx_enq = <<>>
    /\ rx_clobbered = FALSE

(***************************************************************************)
(* UhyveNetwork::new: spawns the writer, then the reader, and returns      *)
(* without waiting for either.                                             *)
(***************************************************************************)
MainSpawnWriter ==
    /\ main_pc = "spawn_writer"
    /\ main_pc' = "spawn_reader"
    /\ w_pc' = "init"
    /\ UNCHANGED <<newvars, loadvars, hypervars, queues, chan, w_written, w_read, w_len, w_iter, rlocals, g_pc, ghosts>>

MainSpawnReader ==
    /\ main_pc = "spawn_reader"
    /\ main_pc' = "return"
    /\ r_pc' = "init"
    /\ UNCHANGED <<newvars, loadvars, hypervars, queues, chan, wlocals, r_written, r_read, r_len, g_pc, ghosts>>

MainReturn ==
    /\ main_pc = "return"
    /\ main_pc' = "returned"
    /\ UNCHANGED <<newvars, loadvars, hypervars, queues, chan, wlocals, rlocals, g_pc, ghosts>>

(***************************************************************************)
(* The writer thread.                                                      *)
(***************************************************************************)
\* tx_queue.init()
WriterInit ==
    /\ w_pc = "init"
    /\ tx_queue' = QueueInit(tx_queue)
    /\ w_pc' = "recv"
    /\ UNCHANGED <<newvars, loadvars, hypervars, main_pc, rx_queue, rx_inner, tx_inner, chan,
                   w_written, w_read, w_len, w_iter, rlocals, g_pc, ghosts>>

\* rx.recv(): blocks until the channel holds a message
WriterRecv ==
    /\ w_pc = "recv"
    /\ chan > 0
    /\ chan' = chan - 1
    /\ w_pc' = "rd_written"
    /\ UNCHANGED <<newvars, loadvars, hypervars, main_pc, queues, w_written, w_read, w_len, w_iter, rlocals, g_pc, ghosts>>

WriterReadWritten ==
    /\ w_pc = "rd_written"
    /\ w_written' = tx_queue.written
    /\ w_pc' = "rd_read"
    /\ UNCHANGED <<newvars, loadvars, hypervars, main_pc, queues, chan, w_read, w_len, w_iter, rlocals, g_pc, ghosts>>

WriterReadRead ==
    /\ w_pc = "rd_read"
    /\ w_read' = tx_queue.read
    /\ w_pc' = "test"
    /\ UNCHANGED <<newvars, loadvars, hypervars, main_pc, queues, chan, w_written, w_len, w_iter, rlocals, g_pc, ghosts>>

\* if distance > 0
WriterHasFrame(distance) == distance > 0

WriterTest ==
    /\ w_pc = "test"
    /\ IF WriterHasFrame(w_written - w_read)
          THEN w_pc' = "rd_len" /\ w_iter' = w_iter
          ELSE w_pc' = "recv" /\ w_iter' = 1
    /\ UNCHANGED <<newvars, loadvars, hypervars, main_pc, queues, chan, w_written, w_read, w_len, rlocals, g_pc, ghosts>>

\* let idx = read % UHYVE_QUEUE_SIZE
WriterSlot(read) == SlotOf(read)

WriterReadLen ==
    /\ w_pc = "rd_len"
    /\ w_len' = tx_inner[WriterSlot(w_read)].len
    /\ w_pc' = "send"
    /\ UNCHANGED <<newvars, loadvars, hypervars, main_pc, queues, chan, w_written, w_read, w_iter, rlocals, g_pc, ghosts>>

\* &tx_queue.inner[idx].data[0..len]
WriterPayload(slot, len) == Payload(slot, len)

WriterSend ==
    /\ w_pc = "send"
    /\ tap_out' = Append(tap_out, WriterPayload(tx_inner[WriterSlot(w_read)], w_len))
    /\ w_pc' = "wr_read"
    /\ UNCHANGED <<newvars, loadvars, hypervars, main_pc, queues, chan, w_written, w_read, w_len, w_iter, rlocals, g_pc,
                   evtfd, reader_incs, tap_in, tx_enq, rx_clobbered>>

\* write_volatile(&mut tx_queue.read, read + 1); the `if` ends here and the
\* thread's `loop` starts over at rx.recv()
WriterNextRead(read) == read + 1

WriterAdvance ==
    /\ w_pc = "wr_read"
    /\ tx_queue' = [tx_queue EXCEPT !.read = WriterNextRead(w_read)]
    /\ w_pc' = "recv"
    /\ w_iter' = 1
    /\ UNCHANGED <<newvars, loadvars, hypervars, main_pc, rx_queue, rx_inner, tx_inner, chan,
                   w_written, w_read, w_len, rlocals, g_pc, ghosts>>

Writer ==
    \/ WriterInit
    \/ WriterRecv
    \/ WriterReadWritten
    \/ WriterReadRead
    \/ WriterTest
    \/ WriterReadLen
    \/ WriterSend
    \/ WriterAdvance

(***************************************************************************)
(* The reader thread.                                                      *)
(***************************************************************************)
\* rx_queue.init()
ReaderInit ==
    /\ r_pc = "init"
    /\ rx_queue' = QueueInit(rx_queue)
    /\ r_pc' = "rd_written"
    /\ UNCHANGED <<newvars, loadvars, hypervars, main_pc, rx_inner, tx_queue, tx_inner, chan, wlocals,
                   r_written, r_read, r_len, g_pc, ghosts>>

ReaderReadWritten ==
    /\ r_pc = "rd_written"
    /\ r_written' = rx_queue.written
    /\ r_pc' = "rd_read"
    /\ UNCHANGED <<newvars, loadvars, hypervars, main_pc, queues, chan, wlocals, r_read, r_len, g_pc, ghosts>>

ReaderReadRead ==
    /\ r_pc = "rd_read"
    /\ r_read' = rx_queue.read
    /\ r_pc' = "test"
    /\ UNCHANGED <<newvars, loadvars, hypervars, main_pc, queues, chan, wlocals, r_written, r_len, g_pc, ghosts>>

\* (mutant) the test lets the reader in at distance = UHYVE_QUEUE_SIZE
ReaderHasRoomInclusive(distance) == distance <= UHYVE_QUEUE_SIZE

\* if distance < UHYVE_QUEUE_SIZE
ReaderHasRoom(distance) == distance < UHYVE_QUEUE_SIZE

\* (mutant) the event FD is written before `written` is stored
ReaderStepsSignalFirst == <<"recv", "wr_len", "signal", "wr_written">>

\* The statements of the `if` branch, in program order: recv into the slot,
\* store len, store written, write the event FD.
ReaderSteps == <<"recv", "wr_len", "wr_written", "signal">>

\* The statement after `pc` in the branch; after the last, the loop starts over.
ReaderNextStep(pc) ==
    LET i == CHOOSE j \in 1..Len(ReaderSteps) : ReaderSteps[j] = pc
    IN  IF i < Len(ReaderSteps) THEN ReaderSteps[i + 1] ELSE "rd_written"

ReaderTest ==
    /\ r_pc = "test"
    /\ r_pc' = IF ReaderHasRoom(r_written - r_read) THEN ReaderSteps[1] ELSE "spin"
    /\ UNCHANGED <<newvars, loadvars, hypervars, main_pc, queues, chan, wlocals, r_written, r_read, r_len, g_pc, ghosts>>

\* (mutant) the slot is taken at the consumer's counter
ReaderSlotAtRead(written) == SlotOf(r_read)

\* let idx = written % UHYVE_QUEUE_SIZE
ReaderSlot(written) == SlotOf(written)

\* iface_reader.recv(&mut rx_queue.inner[idx].data): blocks until the TAP
\* device has a frame, copies it into the slot and returns its length.
ReaderRecv ==
    /\ r_pc = "recv"
    /\ Len(tap_in) < MaxRx
    /\ \E n \in FrameLens(Len(tap_in) + 1) :
          LET f   == Frame(Len(tap_in) + 1, n)
              idx == ReaderSlot(r_written)
          IN  /\ rx_inner' = [rx_inner EXCEPT ![idx].data = StoreFrame(@, f)]
              /\ r_len' = n
              /\ tap_in' = Append(tap_in, f)
              /\ rx_clobbered' =
                    (rx_clobbered \/ \E c \in Pending(rx_queue) : SlotOf(c) = idx)
    /\ r_pc' = ReaderNextStep("recv")
    /\ UNCHANGED <<newvars, loadvars, hypervars, main_pc, rx_queue, tx_queue, tx_inner, chan, wlocals,
                   r_written, r_read, g_pc, evtfd, reader_incs, tap_out, tx_enq>>

\* write_volatile(&mut rx_queue.inner[idx].len, ...)
ReaderWriteLen ==
    /\ r_pc = "wr_len"
    /\ rx_inner' = [rx_inner EXCEPT ![ReaderSlot(r_written)].len = r_len]
    /\ r_pc' = ReaderNextStep("wr_len")
    /\ UNCHANGED <<newvars, loadvars, hypervars, main_pc, rx_queue, tx_queue, tx_inner, chan, wlocals,
                   r_written, r_read, r_len, g_pc, ghosts>>

\* (mutant) the reader publishes two frames for the one it received
ReaderNextWrittenTwice(written) == written + 2
\* write_volatile(&mut rx_queue.written, written + 1)
ReaderNextWritten(written) == written + 1

ReaderAdvance ==
    /\ r_pc = "wr_written"
    /\ rx_queue' = [rx_queue EXCEPT !.written = ReaderNextWritten(r_written)]
    /\ reader_incs' = reader_incs + (rx_queue'.written - rx_queue.written)
    /\ r_pc' = ReaderNextStep("wr_written")
    /\ UNCHANGED <<newvars, loadvars, hypervars, main_pc, rx_inner, tx_queue, tx_inner, chan, wlocals,
                   r_written, r_read, r_len, g_pc, evtfd, tap_in, tap_out, tx_enq,
                   rx_clobbered>>

\* evtfd.write(1)
ReaderSignal ==
    /\ r_pc = "signal"
    /\ evtfd' = evtfd + 1
    /\ r_pc' = ReaderNextStep("signal")
    /\ UNCHANGED <<newvars, loadvars, hypervars, main_pc, queues, chan, wlocals, r_written, r_read, r_len, g_pc,
                   reader_incs, tap_in, tap_out, tx_enq, rx_clobbered>>

\* hint::spin_loop()
ReaderSpin ==
    /\ r_pc = "spin"
    /\ r_pc' = "rd_written"
    /\ UNCHANGED <<newvars, loadvars, hypervars, main_pc, queues, chan, wlocals, r_written, r_read, r_len, g_pc, ghosts>>

Reader ==
    \/ ReaderInit
    \/ ReaderReadWritten
    \/ ReaderReadRead
    \/ ReaderTest
    \/ ReaderRecv
    \/ ReaderWriteLen
    \/ ReaderAdvance
    \/ ReaderSignal
    \/ ReaderSpin

(***************************************************************************)
(* The guest, which runs once the VM is built; nothing orders its first    *)
(* access to a queue after the worker threads' init().  It keeps to the    *)
(* queue protocol: on the TX queue it fills the slot at `written` and      *)
(* increments `written` only while written - read < UHYVE_QUEUE_SIZE, then *)
(* nudges through the NETINFO port; on the RX queue it increments `read`   *)
(* only while read < written.                                              *)
(***************************************************************************)
GuestTxEnqueue ==
    /\ main_pc = "returned"
    /\ g_pc = "idle"
    /\ Len(tx_enq) < MaxTx
    /\ tx_queue.written - tx_queue.read < UHYVE_QUEUE_SIZE
    /\ \E n \in FrameLens(Len(tx_enq) + 1) :
          LET f   == Frame(Len(tx_enq) + 1, n)
              idx == SlotOf(tx_queue.written)
          IN  /\ tx_inner' = [tx_inner EXCEPT ![idx] =
                                 [len |-> n, data |-> StoreFrame(@.data, f)]]
              /\ tx_enq' = Append(tx_enq, f)
    /\ tx_queue' = [tx_queue EXCEPT !.written = @ + 1]
    /\ g_pc' = "nudge"
    /\ UNCHANGED <<newvars, loadvars, hypervars, main_pc, rx_queue, rx_inner, chan, wlocals, rlocals,
                   evtfd, reader_incs, tap_in, tap_out, rx_clobbered>>

\* The nudge into sync_channel(1): a message is added unless the channel
\* already holds one, in which case the nudge is coalesced.
GuestNudge ==
    /\ g_pc = "nudge"
    /\ chan' = IF chan < 1 THEN chan + 1 ELSE chan
    /\ g_pc' = "idle"
    /\ UNCHANGED <<newvars, loadvars, hypervars, main_pc, queues, wlocals, rlocals, ghosts>>

GuestRxConsume ==
    /\ main_pc = "returned"
    /\ rx_queue.read < rx_queue.written
    /\ rx_queue' = [rx_queue EXCEPT !.read = @ + 1]
    /\ UNCHANGED <<newvars, loadvars, hypervars, main_pc, rx_inner, tx_queue, tx_inner, chan, wlocals, rlocals,
                   g_pc, ghosts>>

Guest ==
    \/ GuestTxEnqueue
    \/ GuestNudge
    \/ GuestRxConsume

(***************************************************************************)
(* The configuration record (src/params.rs).                               *)
(***************************************************************************)
\* GuestMemorySize::minimum(): 16 * 1024 * 1024 bytes
GuestMemorySizeMinimum == 16

\* GuestMemorySize::default(): 64 * 1024 * 1024 bytes
GuestMemorySizeDefault == 64

\* The sizes a run may ask for: round the minimum, the default, round the
\* start and the end of the 32-bit gap, and 5 GiB.
MemoryValues == {1, 15, 16, 17, 64, 3327, 3328, 3329, 4095, 4096, 4097, 5120}

\* The strings a run may give FromStr, as the tokens Byte::from_str reads: a
\* number and a unit.  The last two are not sizes.
MemoryStrings ==
    {<<15, "MiB">>, <<16, "MiB">>, <<64, "MiB">>, <<1, "GiB">>, <<5, "GiB">>,
     <<"lots">>, <<16, "furlongs">>}

\* Byte::from_str (byte_unit): the size a string names, or a ByteError.
ByteFromStr(str) ==
    IF Len(str) = 2 /\ str[2] = "MiB" THEN [ok |-> TRUE, val |-> str[1]]
    ELSE IF Len(str) = 2 /\ str[2] = "GiB" THEN [ok |-> TRUE, val |-> str[1] * 1024]
    ELSE [ok |-> FALSE, err |-> "Parse"]

\* (mutant) the minimum itself is refused
GuestMemorySizeTryFromStrict(value) ==
    IF value > GuestMemorySizeMinimum
        THEN [ok |-> TRUE, val |-> value]
        ELSE [ok |-> FALSE, err |-> "InvalidMemorySize"]

\* impl TryFrom<Byte> for GuestMemorySize
GuestMemorySizeTryFrom(value) ==
    IF value >= GuestMemorySizeMinimum
        THEN [ok |-> TRUE, val |-> value]
        ELSE [ok |-> FALSE, err |-> "InvalidMemorySize"]

\* impl FromStr for GuestMemorySize
GuestMemorySizeFromStr(str) ==
    LET requested == ByteFromStr(str)
    IN  IF requested.ok THEN GuestMemorySizeTryFrom(requested.val) ELSE requested

\* impl TryFrom<u32> for CpuCount: NonZeroU32 refuses 0
CpuCountTryFrom(value) ==
    IF value # 0 THEN [ok |-> TRUE, val |-> value] ELSE [ok |-> FALSE, err |-> "TryFromInt"]

\* The ways a configuration gets its memory size.
MemoryRequests ==
    {[how |-> "default"]}
    \cup {[how |-> "try_from", value |-> v] : v \in MemoryValues}
    \cup {[how |-> "from_str", str |-> str] : str \in MemoryStrings}

GuestMemorySizeOf(req) ==
    CASE req.how = "default"  -> [ok |-> TRUE, val |-> GuestMemorySizeDefault]
      [] req.how = "try_from" -> GuestMemorySizeTryFrom(req.value)
      [] req.how = "from_str" -> GuestMemorySizeFromStr(req.str)

\* the most vCPUs a run asks for
MaxCpus == 2

(***************************************************************************)
(* Uhyve::new (src/linux/uhyve.rs).                                        *)
(***************************************************************************)
\* const KVM_32BIT_MAX_MEM_SIZE: usize = 1 << 32
KVM_32BIT_MAX_MEM_SIZE == 4096
\* const KVM_32BIT_GAP_SIZE: usize = 768 << 20
KVM_32BIT_GAP_SIZE == 768
KVM_32BIT_GAP_START == KVM_32BIT_MAX_MEM_SIZE - KVM_32BIT_GAP_SIZE

\* The addresses mmap may place the guest's memory at.
HostBases == {8192, 1048576}

\* The steps of Uhyve::new, in program order.
NewSteps ==
    <<"params", "create_vm", "mmap", "slot0", "slot1", "irq_chip", "x2apic",
      "tsc_deadline", "irqfd", "disable_exits", "evtfd", "nic", "assert", "finish", "done">>

StepIndex(step) == CHOOSE i \in 1..Len(NewSteps) : NewSteps[i] = step
StepAfter(step) == NewSteps[StepIndex(step) + 1]

\* What a host call may answer.
HostAnswers == {"Ok", "Err"}

NoParams == [memory_size |-> 0, cpu_count |-> 0]
NoMem == [flags |-> 0, memory_size |-> 0, guest_address |-> 0, host_address |-> 0]
NoHost == [tsc_deadline |-> "untried", irqfd |-> "untried"]

\* Construction goes on to the next step.
Proceed(step) ==
    /\ n_pc' = StepAfter(step)
    /\ UNCHANGED <<n_result, n_error>>

\* Construction ends at `step`: `?` returns the error, expect/unwrap/assert panic.
Fail(how, what) ==
    /\ n_result' = how
    /\ n_error' = what
    /\ UNCHANGED n_pc

At(step) == n_pc = step /\ n_result = "running"

\* The configuration record is built: GuestMemorySize and CpuCount validate.
ParamsNew ==
    /\ At("params")
    /\ LET m == GuestMemorySizeOf(c_memory)
           c == CpuCountTryFrom(c_cpus)
       IN  IF ~m.ok THEN Fail("Err", m.err) /\ UNCHANGED n_params
           ELSE IF ~c.ok THEN Fail("Err", c.err) /\ UNCHANGED n_params
           ELSE /\ n_params' = [memory_size |-> m.val, cpu_count |-> c.val]
                /\ Proceed("params")
    /\ UNCHANGED <<netvars, loadvars, hypervars, n_tables, config, n_mem, n_regions, n_host, n_device>>

\* let vm = KVM.create_vm()?
NewCreateVm ==
    /\ At("create_vm")
    /\ \E answer \in HostAnswers :
          IF answer = "Ok" THEN Proceed("create_vm") ELSE Fail("Err", "create_vm")
    /\ UNCHANGED <<netvars, loadvars, hypervars, n_tables, config, n_params, n_mem, n_regions, n_host, n_device>>

\* MmapMemory::new(0, memory_size, 0, params.thp, params.ksm)
NewMmap ==
    /\ At("mmap")
    /\ \/ /\ \E base \in HostBases :
                n_mem' = [flags |-> 0, memory_size |-> n_params.memory_size,
                          guest_address |-> 0, host_address |-> base]
          /\ Proceed("mmap")
       \/ Fail("panic", "mmap failed") /\ UNCHANGED n_mem
       \/ /\ c_advice.ksm \/ c_advice.thp
          /\ Fail("panic", "madvise") /\ UNCHANGED n_mem
    /\ UNCHANGED <<netvars, loadvars, hypervars, n_tables, config, n_params, n_regions, n_host, n_device>>

\* let sz = cmp::min(memory_size, KVM_32BIT_GAP_START)
Slot0Size(memory_size) ==
    IF memory_size <= KVM_32BIT_GAP_START THEN memory_size ELSE KVM_32BIT_GAP_START

\* (mutant) the second region is registered from the start of the gap
NeedsSlot1FromGapStart(memory_size) == memory_size > KVM_32BIT_GAP_START

\* if memory_size > KVM_32BIT_GAP_START + KVM_32BIT_GAP_SIZE
NeedsSlot1(memory_size) == memory_size > KVM_32BIT_GAP_START + KVM_32BIT_GAP_SIZE

\* kvm_userspace_memory_region { slot: 0, .. }
Slot0Region(mem) ==
    [slot |-> 0, flags |-> mem.flags,
     memory_size |-> Slot0Size(mem.memory_size),
     guest_phys_addr |-> mem.guest_address,
     userspace_addr |-> mem.host_address]

\* kvm_userspace_memory_region { slot: 1, .. }
Slot1Region(mem) ==
    [slot |-> 1, flags |-> mem.flags,
     memory_size |-> mem.memory_size - KVM_32BIT_GAP_START - KVM_32BIT_GAP_SIZE,
     guest_phys_addr |-> mem.guest_address + KVM_32BIT_GAP_START + KVM_32BIT_GAP_SIZE,
     userspace_addr |-> mem.host_address + KVM_32BIT_GAP_START + KVM_32BIT_GAP_SIZE]

\* unsafe { vm.set_user_memory_region(kvm_mem) }?   (slot 0)
NewSlot0 ==
    /\ At("slot0")
    /\ \E answer \in HostAnswers :
          IF answer = "Ok"
              THEN n_regions' = n_regions \cup {Slot0Region(n_mem)} /\ Proceed("slot0")
              ELSE Fail("Err", "set_user_memory_region") /\ UNCHANGED n_regions
    /\ UNCHANGED <<netvars, loadvars, hypervars, n_tables, config, n_params, n_mem, n_host, n_device>>

\* the second region, for memory beyond the 32-bit gap
NewSlot1 ==
    /\ At("slot1")
    /\ IF NeedsSlot1(n_mem.memory_size)
          THEN \E answer \in HostAnswers :
                  IF answer = "Ok"
                      THEN n_regions' = n_regions \cup {Slot1Region(n_mem)} /\ Proceed("slot1")
                      ELSE Fail("Err", "set_user_memory_region") /\ UNCHANGED n_regions
          ELSE Proceed("slot1") /\ UNCHANGED n_regions
    /\ UNCHANGED <<netvars, loadvars, hypervars, n_tables, config, n_params, n_mem, n_host, n_device>>

\* vm.create_irq_chip()?
NewIrqChip ==
    /\ At("irq_chip")
    /\ \E answer \in HostAnswers :
          IF answer = "Ok" THEN Proceed("irq_chip") ELSE Fail("Err", "create_irq_chip")
    /\ UNCHANGED <<netvars, loadvars, hypervars, n_tables, config, n_params, n_mem, n_regions, n_host, n_device>>

\* Result::expect: goes on when the call succeeded
Expect(answer) == answer = "Ok"

\* Result::expect_err: goes on when the call failed
ExpectErr(answer) == answer = "Err"

\* vm.enable_cap(KVM_CAP_X2APIC_API).expect(..)
NewX2Apic ==
    /\ At("x2apic")
    /\ \E answer \in HostAnswers :
          IF Expect(answer) THEN Proceed("x2apic")
          ELSE Fail("panic", "Unable to enable x2apic support")
    /\ UNCHANGED <<netvars, loadvars, hypervars, n_tables, config, n_params, n_mem, n_regions, n_host, n_device>>

\* vm.enable_cap(KVM_CAP_TSC_DEADLINE_TIMER).expect_err(..)
TscDeadlineCheck(answer) == ExpectErr(answer)

NewTscDeadline ==
    /\ At("tsc_deadline")
    /\ \E answer \in HostAnswers :
          /\ n_host' = [n_host EXCEPT !.tsc_deadline = answer]
          /\ IF TscDeadlineCheck(answer) THEN Proceed("tsc_deadline")
             ELSE Fail("panic", "Processor feature `tsc deadline` isn't supported!")
    /\ UNCHANGED <<netvars, loadvars, hypervars, n_tables, config, n_params, n_mem, n_regions, n_device>>

\* vm.enable_cap(KVM_CAP_IRQFD).expect_err(..)
IrqFdCheck(answer) == ExpectErr(answer)

NewIrqFd ==
    /\ At("irqfd")
    /\ \E answer \in HostAnswers :
          /\ n_host' = [n_host EXCEPT !.irqfd = answer]
          /\ IF IrqFdCheck(answer) THEN Proceed("irqfd")
             ELSE Fail("panic", "The support of KVM_CAP_IRQFD is currently required")
    /\ UNCHANGED <<netvars, loadvars, hypervars, n_tables, config, n_params, n_mem, n_regions, n_device>>

\* vm.enable_cap(KVM_CAP_X86_DISABLE_EXITS).expect(..)
NewDisableExits ==
    /\ At("disable_exits")
    /\ \E answer \in HostAnswers :
          IF Expect(answer) THEN Proceed("disable_exits")
          ELSE Fail("panic", "Unable to disable exists due pause instructions")
    /\ UNCHANGED <<netvars, loadvars, hypervars, n_tables, config, n_params, n_mem, n_regions, n_host, n_device>>

\* let evtfd = EventFd::new(0).unwrap(); vm.register_irqfd(&evtfd, UHYVE_IRQ_NET)?
NewEventFd ==
    /\ At("evtfd")
    /\ \/ Proceed("evtfd")
       \/ Fail("panic", "EventFd::new")
       \/ Fail("Err", "register_irqfd")
    /\ UNCHANGED <<netvars, loadvars, hypervars, n_tables, config, n_params, n_mem, n_regions, n_host, n_device>>

\* let uhyve_device = match &params.nic { Some(nic) => Some(UhyveNetwork::new(..)), _ => None }
NewNic ==
    /\ At("nic")
    /\ IF c_nic = "Some"
          THEN \/ n_device' = "Some" /\ Proceed("nic")
               \/ Fail("panic", "Unable to creat TUN/TAP device") /\ UNCHANGED n_device
          ELSE n_device' = "None" /\ Proceed("nic")
    /\ UNCHANGED <<netvars, loadvars, hypervars, n_tables, config, n_params, n_mem, n_regions, n_host>>

\* (mutant) the assertion accepts any number of vCPUs
GdbAssertionAnyCpus(gdb_port, cpu_count) == gdb_port = "None" \/ cpu_count >= 1

\* params.gdb_port.is_none() || cpu_count == 1
GdbAssertion(gdb_port, cpu_count) == gdb_port = "None" \/ cpu_count = 1

\* assert!(.., "gdbstub is only supported with one CPU")
NewAssert ==
    /\ At("assert")
    /\ IF GdbAssertion(c_gdb_port, n_params.cpu_count) THEN Proceed("assert")
       ELSE Fail("panic", "gdbstub is only supported with one CPU")
    /\ UNCHANGED <<netvars, loadvars, hypervars, n_tables, config, n_params, n_mem, n_regions, n_host, n_device>>

(***************************************************************************)
(* Uhyve::init_guest_mem (src/linux/uhyve.rs, 362-409): the GDT and the    *)
(* boot page tables.  A table entry is the 64-bit word set_addr stores:    *)
(* the frame's address with the flag bits in its low twelve bits.  The     *)
(* BOOT_ addresses are set in consts.rs and the flag bits in the x86_64    *)
(* crate; neither is among the sources.                                    *)
(***************************************************************************)
BOOT_GDT == 4096
BOOT_PML4 == 65536
BOOT_PDPTE == 69632
BOOT_PDE == 73728
\* PageTableFlags::PRESENT, WRITABLE, HUGE_PAGE
PRESENT == 1
WRITABLE == 2
HUGE_PAGE == 128
\* entries of a PageTable
PageTableEntries == 512
\* Page::<Size2MiB>::SIZE
Size2MiB == 2097152

TableIndex == 0..(PageTableEntries - 1)
TablePages == {BOOT_GDT, BOOT_PML4, BOOT_PDPTE, BOOT_PDE}

\* Anonymous memory from mmap is zero: a page is kept as the entries stored
\* into it, and every other entry of it is zero.
ZeroedTables == [page \in TablePages |-> [i \in {} |-> 0]]

\* The page `table` with `entries` stored into it.
StoreEntries(table, entries) ==
    [i \in DOMAIN table \cup DOMAIN entries |->
        IF i \in DOMAIN entries THEN entries[i] ELSE table[i]]

\* PageTableEntry::set_addr(addr, flags): the entry becomes addr | flags.
SetAddr(addr, flags) == addr + flags

\* create_gdt_entry(flags, base, limit), kept as its arguments.
CreateGdtEntry(flags, base, limit) == [flags |-> flags, base |-> base, limit |-> limit]

\* (mutant) the directory's entries are left without the HUGE_PAGE flag
PdeEntryNotHuge(i) == SetAddr(i * Size2MiB, PRESENT + WRITABLE)
\* pde[i].set_addr(PhysAddr::new(i * Page::<Size2MiB>::SIZE), PRESENT | WRITABLE | HUGE_PAGE)
PdeEntry(i) == SetAddr(i * Size2MiB, PRESENT + WRITABLE + HUGE_PAGE)

\* The stores of init_guest_mem, applied to the tables `t`.
InitGuestMem(t) ==
    [t EXCEPT
       ![BOOT_GDT] = StoreEntries(@, 0 :> CreateGdtEntry(0, 0, 0)
                                     @@ 1 :> CreateGdtEntry(41115, 0, 1048575)
                                     @@ 2 :> CreateGdtEntry(49299, 0, 1048575)),
       ![BOOT_PML4] = StoreEntries(@, 0 :> SetAddr(BOOT_PDPTE, PRESENT + WRITABLE)
                                      @@ (PageTableEntries - 1) :>
                                             SetAddr(BOOT_PML4, PRESENT + WRITABLE)),
       ![BOOT_PDPTE] = StoreEntries(@, 0 :> SetAddr(BOOT_PDE, PRESENT + WRITABLE)),
       ![BOOT_PDE] = StoreEntries(@, [i \in TableIndex |-> PdeEntry(i)])]

\* The flag bits and the frame address of a table entry.
EntryFlags(entry) == entry % 4096
EntryAddr(entry) == entry - EntryFlags(entry)
HasFlag(entry, flag) == (entry \div flag) % 2 = 1

\* The entry at index i of the table at guest-physical address `table`; memory
\* that init_guest_mem has not stored to reads as zero.
TableEntry(t, table, i) ==
    IF table \in DOMAIN t /\ i \in DOMAIN t[table] THEN t[table][i] ELSE 0

\* The x86-64 4-level walk of the virtual address va, rooted at BOOT_PML4:
\* [ok, level, pa].  Virtual addresses here are below 2^31, so the PML4
\* index (bits 39-47) is 0.
Walk(t, va) ==
    LET i4 == 0
        i3 == (va \div (PageTableEntries * Size2MiB)) % PageTableEntries
        i2 == (va \div Size2MiB) % PageTableEntries
        i1 == (va \div 4096) % PageTableEntries
        e4 == TableEntry(t, BOOT_PML4, i4)
        e3 == TableEntry(t, EntryAddr(e4), i3)
        e2 == TableEntry(t, EntryAddr(e3), i2)
        e1 == TableEntry(t, EntryAddr(e2), i1)
        Fault(level) == [ok |-> FALSE, level |-> level, pa |-> 0]
    IN  IF ~HasFlag(e4, PRESENT) THEN Fault("PML4")
        ELSE IF ~HasFlag(e3, PRESENT) THEN Fault("PDPT")
        ELSE IF ~HasFlag(e2, PRESENT) THEN Fault("PDE")
        ELSE IF HasFlag(e2, HUGE_PAGE)
             THEN [ok |-> TRUE, level |-> "PDE", pa |-> EntryAddr(e2) + (va % Size2MiB)]
        ELSE IF ~HasFlag(e1, PRESENT) THEN Fault("PTE")
        ELSE [ok |-> TRUE, level |-> "PTE", pa |-> EntryAddr(e1) + (va % 4096)]

\* the Uhyve is built, hyve.init_guest_mem() runs, Ok(hyve)
NewFinish ==
    /\ At("finish")
    /\ n_pc' = StepAfter("finish")
    /\ n_result' = "Ok"
    /\ n_tables' = InitGuestMem(n_tables)
    /\ UNCHANGED <<netvars, loadvars, hypervars, config, n_error, n_params, n_mem, n_regions, n_host, n_device>>

(***************************************************************************)
(* The kernel has not been loaded and no hypercall has been made: the      *)
(* state of the loader and of the dispatcher while the VM is built.        *)
(***************************************************************************)
NoImage ==
    [readable |-> FALSE, parses |-> FALSE, libraries |-> <<>>, e_type |-> "ET_NONE",
     e_machine |-> "EM_NONE", notes |-> [section |-> FALSE, list |-> <<>>], entry |-> 0,
     size |-> 0, program_headers |-> <<>>, dynrelas |-> <<>>]
\* TlsInfo::default()
TlsInfoDefault == [start |-> 0, filesz |-> 0, memsz |-> 0, align |-> 0]
\* no byte stored yet
NoBytes == [a \in {} |-> 0]
\* the bytes at BOOT_INFO_ADDR before load_kernel stores the structure: zero
NoBootInfo ==
    [written |-> FALSE, base |-> 0, limit |-> 0, image_size |-> 0, tls_info |-> TlsInfoDefault,
     possible_cpus |-> 0, uartport |-> 0, uhyve |-> 0, cpu_online |-> 0]

\* no method of the Vm has returned a value yet
NoCall == [op |-> "none", val |-> 0]

LoadIdle ==
    /\ l_pc = "idle"
    /\ l_result = "idle"
    /\ l_error = ""
    /\ l_image = NoImage
    /\ l_verbose = FALSE
    /\ l_ph = 0
    /\ l_rela = 0
    /\ l_offset = 0
    /\ l_entry_point = 0
    /\ l_image_size = 0
    /\ l_tls_info = TlsInfoDefault
    /\ l_mem = NoBytes
    /\ l_raw = NoBootInfo
    /\ l_boot_info = "null"
    /\ l_writes = <<>>
    /\ l_cpus = {}
    /\ l_seen = NoCall

NoBlock == [ret |-> 0]
NoSys == [name |-> "none", result |-> 0]
NoEnv == [path |-> <<>>, args |-> <<>>, vars |-> <<>>]
NoSizes == [argc |-> 0, argsz |-> <<>>, envc |-> 0, envsz |-> <<>>]

\* No hypercall is being handled.
NoHypercall ==
    /\ h_pc = "guest"
    /\ h_op = "none"
    /\ h_block = NoBlock
    /\ h_return = "none"
    /\ h_sys = NoSys
    /\ h_ptrs = {}
    /\ h_local = 0
    /\ h_copied = {}

HyperIdle == NoHypercall /\ h_env = NoEnv /\ h_sizes = NoSizes

(***************************************************************************)
(* The specifications.                                                     *)
(***************************************************************************)
\* The VM whose TAP path Spec follows: a NIC is configured, and construction
\* stands at the call of UhyveNetwork::new.
NewAtNic ==
    /\ c_memory = [how |-> "default"]
    /\ c_cpus = 1
    /\ c_gdb_port = "None"
    /\ c_nic = "Some"
    /\ c_advice = [thp |-> TRUE, ksm |-> TRUE]
    /\ n_pc = "nic"
    /\ n_result = "running"
    /\ n_error = ""
    /\ n_params = [memory_size |-> GuestMemorySizeDefault, cpu_count |-> 1]
    /\ n_mem = [flags |-> 0, memory_size |-> GuestMemorySizeDefault,
                guest_address |-> 0, host_address |-> 8192]
    /\ n_regions = {Slot0Region(n_mem)}
    /\ n_host = [tsc_deadline |-> "Err", irqfd |-> "Err"]
    /\ n_device = "None"
    /\ n_tables = ZeroedTables

Init == NetInit /\ NewAtNic /\ LoadIdle /\ HyperIdle

Next ==
    \/ MainSpawnWriter
    \/ MainSpawnReader
    \/ MainReturn
    \/ Writer
    \/ Reader
    \/ Guest

Spec == Init /\ [][Next]_vars

\* Any configuration, before anything is built.
InitNew ==
    /\ NetInit
    /\ c_memory \in MemoryRequests
    /\ c_cpus \in 0..MaxCpus
    /\ c_gdb_port \in {"None", "Some"}
    /\ c_nic \in {"None", "Some"}
    /\ c_advice \in [thp : BOOLEAN, ksm : BOOLEAN]
    /\ n_pc = "params"
    /\ n_result = "running"
    /\ n_error = ""
    /\ n_params = NoParams
    /\ n_mem = NoMem
    /\ n_regions = {}
    /\ n_host = NoHost
    /\ n_device = "None"
    /\ n_tables = ZeroedTables
    /\ LoadIdle
    /\ HyperIdle

NextNew ==
    \/ ParamsNew
    \/ NewCreateVm
    \/ NewMmap
    \/ NewSlot0
    \/ NewSlot1
    \/ NewIrqChip
    \/ NewX2Apic
    \/ NewTscDeadline
    \/ NewIrqFd
    \/ NewDisableExits
    \/ NewEventFd
    \/ NewNic
    \/ NewAssert
    \/ NewFinish

SpecNew == InitNew /\ [][NextNew]_vars

(***************************************************************************)
(* Vm::load_kernel (src/vm.rs, 341-555).  The image is what goblin makes   *)
(* of the file at kernel_path: its header fields, its note headers, its    *)
(* program headers and its dynamic relocations with addend.  Guest memory  *)
(* is kept byte by byte, as the bytes load_kernel has stored (memory from  *)
(* mmap is zero); addresses and sizes are counted in bytes here.           *)
(***************************************************************************)
\* program headers an image has at most
MaxProgramHeaders == 2
\* dynamic relocations an image has at most
MaxRelas == 2

\* ELF_HOST_ARCH is set in the arch module, which is not among the sources.
ELF_HOST_ARCH == "EM_X86_64"

\* vm_mem_length of the VM the kernel is loaded into: 16 MiB
LoadMemorySize == GuestMemorySizeMinimum * 1048576

\* The byte at offset o of the file: never zero, and different at neighbouring offsets.
FileByte(o) == (o % 250) + 1

\* The program headers images are made of.  LoadEnd ends with the last byte
\* of guest memory when it is placed at p_vaddr, LoadPast one byte after it.
LoadA == [p_type |-> "PT_LOAD", p_vaddr |-> 8192, p_offset |-> 256,
          p_filesz |-> 2, p_memsz |-> 3, p_align |-> 4096]
LoadB == [p_type |-> "PT_LOAD", p_vaddr |-> 12288, p_offset |-> 512,
          p_filesz |-> 1, p_memsz |-> 1, p_align |-> 4096]
LoadEnd == [p_type |-> "PT_LOAD", p_vaddr |-> LoadMemorySize - 3, p_offset |-> 768,
            p_filesz |-> 1, p_memsz |-> 3, p_align |-> 4096]
LoadPast == [p_type |-> "PT_LOAD", p_vaddr |-> LoadMemorySize - 2, p_offset |-> 768,
             p_filesz |-> 1, p_memsz |-> 3, p_align |-> 4096]
TlsSegment == [p_type |-> "PT_TLS", p_vaddr |-> 20480, p_offset |-> 1024,
               p_filesz |-> 1, p_memsz |-> 2, p_align |-> 8]
NoteSegment == [p_type |-> "PT_NOTE", p_vaddr |-> 0, p_offset |-> 64,
                p_filesz |-> 1, p_memsz |-> 1, p_align |-> 4]
ProgramHeaders == {LoadA, LoadB, LoadEnd, LoadPast, TlsSegment, NoteSegment}

\* The relocations images are made of; their words do not overlap.
RelaA == [r_type |-> "R_X86_64_RELATIVE", r_offset |-> 8192, r_addend |-> 8192]
RelaB == [r_type |-> "R_AARCH64_RELATIVE", r_offset |-> 16384, r_addend |-> 16]
RelaOther == [r_type |-> "R_X86_64_64", r_offset |-> 12288, r_addend |-> 153]
Relas == {RelaA, RelaB, RelaOther}

\* Note headers: none at all, or a list of notes [name, n_type, desc[0]].
OtherNote == [name |-> "GNU", n_type |-> "NT_GNU_BUILD_ID", desc |-> 7]
HermitNote(version) ==
    [name |-> "HERMIT", n_type |-> "NT_HERMIT_ENTRY_VERSION", desc |-> version]
NoNotes == [section |-> FALSE, list |-> <<>>]
Notes(list) == [section |-> TRUE, list |-> list]

\* The tables of at most n entries of S in ascending order: program headers
\* by p_vaddr, relocations by r_offset.
TableKey(entry) == IF "p_vaddr" \in DOMAIN entry THEN entry.p_vaddr ELSE entry.r_offset
Ascending(S, n) ==
    {s \in UNION {[1..k -> S] : k \in 0..n} :
        \A i \in 1..(Len(s) - 1) : TableKey(s[i]) < TableKey(s[i + 1])}

\* Images that pass the checks of lines 344-378.
LoadableImages ==
    [readable : {TRUE}, parses : {TRUE}, libraries : {<<>>},
     e_type : {"ET_DYN", "ET_EXEC"}, e_machine : {ELF_HOST_ARCH},
     notes : {NoNotes, Notes(<<OtherNote, HermitNote(1)>>)},
     entry : {4096}, size : {2048},
     program_headers : Ascending(ProgramHeaders, MaxProgramHeaders),
     dynrelas : Ascending(Relas, MaxRelas)]

\* Images that differ in what those checks look at: a file that cannot be
\* read or parsed, a dependency on a library, another machine, notes without
\* an entry version or with another one.
CheckedImages ==
    [readable : BOOLEAN, parses : BOOLEAN, libraries : {<<>>, <<"libc.so.6">>},
     e_type : {"ET_DYN"}, e_machine : {ELF_HOST_ARCH, "EM_AARCH64"},
     notes : {NoNotes, Notes(<<OtherNote>>), Notes(<<HermitNote(2)>>),
              Notes(<<OtherNote, HermitNote(2)>>)},
     entry : {4096}, size : {2048},
     program_headers : {<<LoadA>>},
     dynrelas : {<<RelaA>>}]

Images == LoadableImages \cup CheckedImages

\* let is_dyn = elf.header.e_type == ET_DYN
IsDyn(image) == image.e_type = "ET_DYN"

\* !elf.libraries.is_empty()
HasLibraries(image) == image.libraries # <<>>

\* (mutant) the machine type is not looked at
MachineMismatchIgnored(image) == FALSE
\* elf.header.e_machine != ELF_HOST_ARCH
MachineMismatch(image) == image.e_machine # ELF_HOST_ARCH

\* note_headers.find(|note| name == "HERMIT" && n_type == NT_HERMIT_ENTRY_VERSION):
\* the index of the first such note, 0 if there is none.
FindHermitNote(list) ==
    LET hits == {i \in 1..Len(list) : /\ list[i].name = "HERMIT"
                                      /\ list[i].n_type = "NT_HERMIT_ENTRY_VERSION"}
    IN  IF hits = {} THEN 0 ELSE CHOOSE i \in hits : \A j \in hits : i <= j

\* The entry-version check of lines 362-378: TRUE when the image is refused.
EntryVersionMismatch(image) ==
    /\ image.notes.section
    /\ LET i == FindHermitNote(image.notes.list)
       IN  i # 0 /\ image.notes.list[i].desc # 1

\* The error lines 344-378 return, "" if they return none.
InvalidData == "Io(InvalidData)"
CheckImage(image) ==
    IF ~image.readable THEN "Io(NotFound)"
    ELSE IF ~image.parses THEN "Goblin"
    ELSE IF HasLibraries(image) THEN InvalidData
    ELSE IF MachineMismatch(image) THEN InvalidData
    ELSE IF EntryVersionMismatch(image) THEN InvalidData
    ELSE ""

\* let (start_address, elf_entry) = if is_dyn { (0x400000, 0x400000 + elf.entry) }
\*                                  else { (0x800000, elf.entry) }
StartAddress(is_dyn) == IF is_dyn THEN 4194304 ELSE 8388608
\* (mutant) the entry point is not moved with the image
ElfEntryUnmoved(is_dyn, entry) == entry
ElfEntry(is_dyn, entry) == IF is_dyn THEN 4194304 + entry ELSE entry

\* Guest memory as load_kernel leaves it: the byte stored last at address a,
\* zero where it has stored nothing.
ByteAt(mem, a) == IF a \in DOMAIN mem THEN mem[a] ELSE 0

\* mem with the sequence `bytes` stored from address `at` on
Store(mem, at, bytes) ==
    [a \in DOMAIN mem \cup (at..(at + Len(bytes) - 1)) |->
        IF a >= at /\ a < at + Len(bytes) THEN bytes[a - at + 1] ELSE mem[a]]

\* let region_start = if is_dyn { start_address + p_vaddr } else { p_vaddr }
RegionStart(is_dyn, start_address, program_header) ==
    IF is_dyn THEN start_address + program_header.p_vaddr ELSE program_header.p_vaddr

\* (mutant) the file is copied from one byte after p_offset
KernelStartOffByOne(program_header) == program_header.p_offset + 1
\* let kernel_start = program_header.p_offset as usize
KernelStart(program_header) == program_header.p_offset

\* (mutant) only the bytes copied from the file are checked against the memory size
ExceedsMemoryFileSize(region_start, program_header, vm_mem_length) ==
    region_start + program_header.p_filesz > vm_mem_length
\* if region_start + program_header.p_memsz as usize > vm_mem_length
ExceedsMemory(region_start, program_header, vm_mem_length) ==
    region_start + program_header.p_memsz > vm_mem_length

\* What the loader carries from one program header or relocation to the next.
LoadStart(len, mem) ==
    [result |-> "running", error |-> "", mem |-> mem, image_size |-> 0,
     tls_info |-> TlsInfoDefault, raw |-> NoBootInfo, boot_info |-> "null",
     writes |-> <<>>, ph |-> 0, rela |-> 0, vm_mem_length |-> len]

Stopped(st, how, what) == [st EXCEPT !.result = how, !.error = what]

\* The PT_LOAD arm (lines 445-482) for the k-th program header.
LoadSegment(st, image, k) ==
    LET program_header == image.program_headers[k]
        is_dyn == IsDyn(image)
        region_start == RegionStart(is_dyn, StartAddress(is_dyn), program_header)
        region_end == region_start + program_header.p_filesz
        kernel_start == KernelStart(program_header)
        kernel_end == kernel_start + program_header.p_filesz
        tail == program_header.p_memsz - program_header.p_filesz
        copied == Store(st.mem, region_start,
                        [d \in 1..program_header.p_filesz |-> FileByte(kernel_start + d - 1)])
        zeroed == IF tail > 0 THEN Store(copied, region_end, [d \in 1..tail |-> 0])
                  ELSE copied
    IN  IF ExceedsMemory(region_start, program_header, st.vm_mem_length)
        THEN Stopped(st, "Err", "InsufficientMemory")
        ELSE IF \/ region_end > st.vm_mem_length
                \/ kernel_end > image.size
                \/ tail > 0 /\ region_end + tail > st.vm_mem_length
        THEN Stopped(st, "panic", "range end index out of range")
        ELSE [st EXCEPT
                !.mem = zeroed,
                !.writes = @ \o <<[kind |-> "copy", idx |-> k]>>
                             \o (IF tail > 0 THEN <<[kind |-> "zero", idx |-> k]>> ELSE <<>>),
                !.image_size = IF is_dyn
                               THEN program_header.p_vaddr + program_header.p_memsz
                               ELSE @ + program_header.p_memsz]

\* The PT_TLS arm (lines 483-500).
LoadTls(st, image, k) ==
    LET program_header == image.program_headers[k]
        is_dyn == IsDyn(image)
    IN  [st EXCEPT !.tls_info =
            [start |-> IF is_dyn THEN StartAddress(is_dyn) + program_header.p_vaddr
                       ELSE program_header.p_vaddr,
             filesz |-> program_header.p_filesz,
             memsz |-> program_header.p_memsz,
             align |-> program_header.p_align]]

\* One call of try_for_each's closure (lines 444-502).
LoadProgramHeader(st, image, k) ==
    LET seen == [st EXCEPT !.ph = k]
        p_type == image.program_headers[k].p_type
    IN  CASE p_type = "PT_LOAD" -> LoadSegment(seen, image, k)
          [] p_type = "PT_TLS" -> LoadTls(seen, image, k)
          [] OTHER -> seen

\* try_for_each over elf.program_headers, from the k-th on: it stops at the
\* first header whose closure returns Err.
RECURSIVE LoadProgramHeaders(_, _, _)
LoadProgramHeaders(st, image, k) ==
    IF k > Len(image.program_headers) \/ st.result # "running" THEN st
    ELSE LoadProgramHeaders(LoadProgramHeader(st, image, k), image, k + 1)

\* Byte k (0 the lowest) of the 64-bit little-endian word of value v < 2^31.
WordByte(v, k) == IF k >= 4 THEN 0 ELSE (v \div (256 ^ k)) % 256

\* (mutant) only the x86-64 kind is relocated
IsRelativeX86Only(r_type) == r_type = "R_X86_64_RELATIVE"
\* R_X86_64_RELATIVE | R_AARCH64_RELATIVE
IsRelative(r_type) == r_type \in {"R_X86_64_RELATIVE", "R_AARCH64_RELATIVE"}

\* One call of for_each's closure over elf.dynrelas (lines 505-515).
Relocate(st, image, j) ==
    LET rela == image.dynrelas[j]
        start_address == StartAddress(IsDyn(image))
        offset == start_address + rela.r_offset
        value == start_address + rela.r_addend
        seen == [st EXCEPT !.rela = j]
    IN  IF ~IsRelative(rela.r_type) THEN seen
        ELSE IF value < 0 THEN Stopped(seen, "panic", "TryFromIntError")
        ELSE [seen EXCEPT
                !.mem = Store(@, offset, [d \in 1..8 |-> WordByte(value, d - 1)]),
                !.writes = @ \o <<[kind |-> "reloc", idx |-> j]>>]

RECURSIVE RelocateAll(_, _, _)
RelocateAll(st, image, j) ==
    IF j > Len(image.dynrelas) \/ st.result # "running" THEN st
    ELSE RelocateAll(Relocate(st, image, j), image, j + 1)

\* UHYVE_UART_PORT is set in consts.rs, which is not among the sources.
UHYVE_UART_PORT == 2048

\* (mutant) the UART port is announced whether verbose or not
UartportAlways(verbose) == UHYVE_UART_PORT
\* self.verbose().then(|| UHYVE_UART_PORT.into()).unwrap_or_default()
Uartport(verbose) == IF verbose THEN UHYVE_UART_PORT ELSE 0

\* The BootInfo of lines 521-544.  The fields taken from the host's clock,
\* its CPU and the network configuration are left out.
BootInfoOf(st, image, verbose) ==
    [written |-> TRUE,
     base |-> StartAddress(IsDyn(image)),
     limit |-> st.vm_mem_length,
     image_size |-> st.image_size,
     tls_info |-> st.tls_info,
     possible_cpus |-> 1,
     uartport |-> Uartport(verbose),
     uhyve |-> 3,
     cpu_online |-> 0]

\* *raw_boot_info = boot_info.into(); self.set_boot_info(raw_boot_info)
StoreBootInfo(st, image, verbose) ==
    [st EXCEPT !.raw = BootInfoOf(st, image, verbose),
               !.writes = @ \o <<[kind |-> "boot_info", idx |-> 0]>>,
               !.boot_info = "BOOT_INFO_ADDR"]

\* (mutant) BootInfo is stored before the relocations are applied
LoadPhasesBootInfoEarly == <<"program_headers", "boot_info", "dynrelas">>
\* The stores of load_kernel to guest memory, in program order.
LoadPhases == <<"program_headers", "dynrelas", "boot_info">>

LoadPhase(st, image, verbose, phase) ==
    IF st.result # "running" THEN st
    ELSE CASE phase = "program_headers" -> LoadProgramHeaders(st, image, 1)
           [] phase = "dynrelas" -> RelocateAll(st, image, 1)
           [] phase = "boot_info" -> StoreBootInfo(st, image, verbose)

\* Lines 380-555: what load_kernel leaves once the image has passed the checks.
LoadChecked(image, verbose, len, mem) ==
    LET s1 == LoadPhase(LoadStart(len, mem), image, verbose, LoadPhases[1])
        s2 == LoadPhase(s1, image, verbose, LoadPhases[2])
        s3 == LoadPhase(s2, image, verbose, LoadPhases[3])
    IN  IF s3.result = "running" THEN [s3 EXCEPT !.result = "Ok"] ELSE s3

\* The VM load_kernel is called on: Uhyve::new has returned Ok for 16 MiB
\* of memory, one vCPU, no NIC and no gdb port.
NewBuilt ==
    /\ c_memory = [how |-> "try_from", value |-> GuestMemorySizeMinimum]
    /\ c_cpus = 1
    /\ c_gdb_port = "None"
    /\ c_nic = "None"
    /\ c_advice = [thp |-> FALSE, ksm |-> FALSE]
    /\ n_pc = "done"
    /\ n_result = "Ok"
    /\ n_error = ""
    /\ n_params = [memory_size |-> GuestMemorySizeMinimum, cpu_count |-> 1]
    /\ n_mem = [flags |-> 0, memory_size |-> GuestMemorySizeMinimum,
                guest_address |-> 0, host_address |-> 8192]
    /\ n_regions = {Slot0Region(n_mem)}
    /\ n_host = [tsc_deadline |-> "Err", irqfd |-> "Err"]
    /\ n_device = "None"
    /\ n_tables = InitGuestMem(ZeroedTables)

\* fn guest_mem(&self) -> (*mut u8, usize): the length, in bytes
GuestMemLength == n_mem.memory_size * 1048576

\* unsafe fn load_kernel(&mut self) -> LoadKernelResult<()>
LoadKernel ==
    /\ n_result = "Ok"
    /\ l_result = "idle"
    /\ l_pc' = "returned"
    /\ LET error == CheckImage(l_image)
           is_dyn == IsDyn(l_image)
           st == LoadChecked(l_image, l_verbose, GuestMemLength, l_mem)
       IN  IF error # ""
           THEN /\ l_result' = "Err"
                /\ l_error' = error
                /\ UNCHANGED <<l_ph, l_rela, l_offset, l_entry_point, l_image_size, l_tls_info,
                               l_mem, l_raw, l_boot_info, l_writes>>
           ELSE /\ l_offset' = StartAddress(is_dyn)
                /\ l_entry_point' = ElfEntry(is_dyn, l_image.entry)
                /\ l_result' = st.result
                /\ l_error' = st.error
                /\ l_ph' = st.ph
                /\ l_rela' = st.rela
                /\ l_image_size' = st.image_size
                /\ l_tls_info' = st.tls_info
                /\ l_mem' = st.mem
                /\ l_raw' = st.raw
                /\ l_boot_info' = st.boot_info
                /\ l_writes' = l_writes \o st.writes
    /\ UNCHANGED <<netvars, newvars, hypervars, l_image, l_verbose, l_cpus, l_seen>>

\* (mutant) every vCPU is handed a sender
CpuSenderAlways(uhyve_device) == "dev.tx.clone()"

\* self.uhyve_device.as_ref().map(|dev| dev.tx.clone()): a clone of the
\* sender of the device's one channel, or None
CpuSender(uhyve_device) == IF uhyve_device = "Some" THEN "dev.tx.clone()" ELSE "None"

\* UhyveCPU::new(id, .., tx, self.virtio_device.clone())
NewCpu(id) ==
    [id |-> id, tx |-> CpuSender(n_device), virtio_device |-> "self.virtio_device.clone()"]

\* fn create_cpu(&self, id: u32): the host may refuse the vCPU
CreateCpu ==
    /\ n_result = "Ok"
    /\ \E id \in 0..(n_params.cpu_count - 1) :
          /\ id \notin {cpu.id : cpu \in l_cpus}
          /\ \E answer \in HostAnswers :
                l_cpus' = IF answer = "Ok" THEN l_cpus \cup {NewCpu(id)} ELSE l_cpus
    /\ UNCHANGED <<netvars, newvars, hypervars, l_pc, l_result, l_error, l_image, l_verbose,
                   l_ph, l_rela, l_offset, l_entry_point, l_image_size, l_tls_info, l_mem,
                   l_raw, l_boot_info, l_writes, l_seen>>

\* What a read-only method of the Vm leaves: the value it returned.
Returned(op, val) ==
    /\ l_seen' = [op |-> op, val |-> val]
    /\ UNCHANGED <<netvars, newvars, hypervars, l_pc, l_result, l_error, l_image, l_verbose,
                   l_ph, l_rela, l_offset, l_entry_point, l_image_size, l_tls_info, l_mem,
                   l_raw, l_boot_info, l_writes, l_cpus>>

\* if self.boot_info.is_null() { 0 } else { read_volatile(&(*self.boot_info).cpu_online) }
CpuOnlineValue(boot_info, raw) == IF boot_info = "null" THEN 0 ELSE raw.cpu_online

\* fn cpu_online(&self) -> u32
CpuOnline ==
    /\ n_result = "Ok"
    /\ Returned("cpu_online", CpuOnlineValue(l_boot_info, l_raw))

\* fn get_offset(&self) -> u64
GetOffset ==
    /\ n_result = "Ok"
    /\ Returned("get_offset", l_offset)

\* fn get_entry_point(&self) -> u64
GetEntryPoint ==
    /\ n_result = "Ok"
    /\ Returned("get_entry_point", l_entry_point)

\* The guest: a vCPU that has come up on the published BootInfo counts itself.
GuestCpuOnline ==
    /\ l_result = "Ok"
    /\ l_boot_info # "null"
    /\ l_raw.cpu_online < Cardinality(l_cpus)
    /\ l_raw' = [l_raw EXCEPT !.cpu_online = @ + 1]
    /\ UNCHANGED <<netvars, newvars, hypervars, l_pc, l_result, l_error, l_image, l_verbose,
                   l_ph, l_rela, l_offset, l_entry_point, l_image_size, l_tls_info, l_mem,
                   l_boot_info, l_writes, l_cpus, l_seen>>

InitLoad ==
    /\ NetInit
    /\ NewBuilt
    /\ HyperIdle
    /\ l_pc = "idle"
    /\ l_result = "idle"
    /\ l_error = ""
    /\ l_image \in Images
    /\ l_verbose \in BOOLEAN
    /\ l_ph = 0
    /\ l_rela = 0
    /\ l_offset = 0
    /\ l_entry_point = 0
    /\ l_image_size = 0
    /\ l_tls_info = TlsInfoDefault
    /\ l_mem = NoBytes
    /\ l_raw = NoBootInfo
    /\ l_boot_info = "null"
    /\ l_writes = <<>>
    /\ l_cpus = {}
    /\ l_seen = NoCall

NextLoad ==
    \/ LoadKernel
    \/ CreateCpu
    \/ CpuOnline
    \/ GetOffset
    \/ GetEntryPoint
    \/ GuestCpuOnline

SpecLoad == InitLoad /\ [][NextLoad]_vars

\* Uhyve::new followed by create_cpu, for any configuration.
NextVm ==
    \/ NextNew
    \/ CreateCpu

SpecVm == InitNew /\ [][NextVm]_vars

(***************************************************************************)
(* Properties of the TAP path (checked under Spec).                        *)
(***************************************************************************)
\* s is an initial segment of t
IsPrefix(s, t) == Len(s) <= Len(t) /\ SubSeq(t, 1, Len(s)) = s

Occupancy(q) == q.written - q.read

\* C1: in every reachable state of the reader thread, the writer thread and a
\* guest that keeps to the queue protocol, both shared queues satisfy
\* 0 <= written - read <= UHYVE_QUEUE_SIZE.
C1_QueueOccupancyBounded ==
    /\ 0 <= Occupancy(rx_queue) /\ Occupancy(rx_queue) <= UHYVE_QUEUE_SIZE
    /\ 0 <= Occupancy(tx_queue) /\ Occupancy(tx_queue) <= UHYVE_QUEUE_SIZE

\* Both rings are full at once, the RX ring on a later lap.
C1_BothQueuesFull ==
    /\ Occupancy(rx_queue) = UHYVE_QUEUE_SIZE
    /\ Occupancy(tx_queue) = UHYVE_QUEUE_SIZE
    /\ rx_queue.read > 0
    /\ tx_queue.read > 0

\* C2 (state part): the reader is inside the receive branch only when the
\* distance it observed was below UHYVE_QUEUE_SIZE, it spins only when the
\* distance it observed was at least UHYVE_QUEUE_SIZE, and it has never stored
\* a frame into a slot whose frame the guest had not consumed.
C2_ReaderState ==
    /\ r_pc \in {"recv", "wr_len", "wr_written", "signal"}
          => r_written - r_read < UHYVE_QUEUE_SIZE
    /\ r_pc = "spin" => r_written - r_read >= UHYVE_QUEUE_SIZE
    /\ ~rx_clobbered

\* C2 (step part): every step the reader takes in an iteration in which it
\* observed written - read >= UHYVE_QUEUE_SIZE leaves the slots, `written`, the
\* event FD and the TAP device alone, and leads back to the top of the loop.
C2_FullIterationStep ==
    (/\ r_pc \in {"test", "spin"}
     /\ r_written - r_read >= UHYVE_QUEUE_SIZE
     /\ r_pc' # r_pc)
    => /\ r_pc' = IF r_pc = "test" THEN "spin" ELSE "rd_written"
       /\ UNCHANGED <<rx_queue, rx_inner, evtfd, reader_incs, tap_in>>

\* C2: a reader that observes a full RX queue receives nothing, stores
\* nothing, does not change `written` and does not signal in that iteration;
\* so it never overwrites a frame the guest has not yet consumed.
C2_ReaderYieldsWhenFull == [](C2_ReaderState) /\ [][C2_FullIterationStep]_vars

\* The reader spins on a ring that is full of unconsumed frames.
C2_ReaderSpinsOnFullQueue ==
    /\ r_pc = "spin"
    /\ Occupancy(rx_queue) = UHYVE_QUEUE_SIZE
    /\ rx_queue.read > 0

\* The slot of the frame with counter c holds the c-th frame the TAP device
\* delivered, bytes and len.
RxSlotHolds(c) ==
    LET slot == rx_inner[SlotOf(c)]
    IN  /\ c + 1 <= Len(tap_in)
        /\ slot.len = Len(tap_in[c + 1])
        /\ Payload(slot, slot.len) = tap_in[c + 1]

\* C3: for every received frame the reader stores bytes and len in slot
\* (written mod UHYVE_QUEUE_SIZE), then increments `written` by 1, then writes
\* the event FD once: every frame the counters publish is stored completely,
\* the event FD is never written ahead of the increment, and the number of
\* event-FD writes is the number of increments, less the one in flight.
C3_StoreThenPublishThenSignal ==
    /\ \A c \in Pending(rx_queue) : RxSlotHolds(c)
    /\ r_pc = "wr_written" => RxSlotHolds(r_written)
    /\ reader_incs = rx_queue.written
    /\ evtfd <= reader_incs
    /\ reader_incs - evtfd = IF r_pc = "signal" THEN 1 ELSE 0
    /\ (Len(tap_in) = 1 /\ r_pc \notin {"wr_len", "wr_written", "signal"})
          => /\ rx_queue.written = 1
             /\ evtfd = 1
             /\ rx_inner[0].len = Len(tap_in[1])
             /\ Payload(rx_inner[0], rx_inner[0].len) = tap_in[1]

\* One frame has arrived: it lies in slot 0, written = 1, one event.
C3_OneFrameOneEvent ==
    /\ Len(tap_in) = 1
    /\ rx_queue.written = 1
    /\ evtfd = 1
    /\ RxSlotHolds(0)

\* C4: whenever the writer is back at the channel after a message, TX `read`
\* equals the TX `written` it last observed (it has sent every pending frame).
C4_WriterDrainsPerMessage ==
    (w_pc = "recv" /\ w_iter = 1) => tx_queue.read = w_written

\* C5: with a guest that nudges after each enqueue and a channel that
\* coalesces nudges, no frame is left in the TX queue that only a further
\* nudge could get sent: when the guest has nudged for all it enqueued, the
\* channel is empty and the writer waits on it, TX read = written.
C5_NoFrameStranded ==
    (w_pc = "recv" /\ chan = 0 /\ g_pc = "idle") => tx_queue.read = tx_queue.written

\* C6: the frames sent to the TAP device are a prefix of the frames the guest
\* enqueued (same order, none twice, each the data[0..len] of its slot), and
\* TX `read` counts exactly the frames sent; one enqueued frame and one nudge
\* give one TAP write of that frame.
C6_TapOutIsPrefixOfEnqueued ==
    /\ IsPrefix(tap_out, tx_enq)
    /\ Len(tap_out) = tx_queue.read + (IF w_pc = "wr_read" THEN 1 ELSE 0)
    /\ (Len(tx_enq) = 1 /\ w_pc = "recv" /\ chan = 0 /\ g_pc = "idle")
          => tap_out = tx_enq

(***************************************************************************)
(* Properties of the configuration and of Uhyve::new (checked under        *)
(* SpecNew).  3.25 GiB = 3328 MiB, 4 GiB = 4096 MiB, 5 GiB = 5120 MiB.     *)
(***************************************************************************)
\* Construction has got beyond `step`.
Past(step) == StepIndex(n_pc) > StepIndex(step)

\* [a, a + n) and [b, b + m) share an address
Intersect(a, n, b, m) == a < b + m /\ b < a + n

RegionsOfSlot(k) == {r \in n_regions : r.slot = k}

\* C7: for every memory_size >= 16 MiB, slot 0 is guest-physical
\* [0, min(memory_size, 3.25 GiB)) at the host base, and slot 1 is registered
\* iff memory_size > 4 GiB, as [4 GiB, memory_size) at host base + 4 GiB; so
\* 3.25 GiB gives one slot, 5 GiB two slots 768 MiB apart, and no slot
\* overlaps another or meets [3.25 GiB, 4 GiB).
C7_MemorySlots ==
    Past("slot1") =>
        LET size == n_params.memory_size
            base == n_mem.host_address
        IN  /\ size >= 16
            /\ RegionsOfSlot(0) =
                  {[slot |-> 0, flags |-> 0, guest_phys_addr |-> 0, userspace_addr |-> base,
                    memory_size |-> IF size < 3328 THEN size ELSE 3328]}
            /\ RegionsOfSlot(1) =
                  IF size > 4096
                      THEN {[slot |-> 1, flags |-> 0, guest_phys_addr |-> 4096,
                             userspace_addr |-> base + 4096, memory_size |-> size - 4096]}
                      ELSE {}
            /\ n_regions = RegionsOfSlot(0) \cup RegionsOfSlot(1)
            /\ size = 3328 => Cardinality(n_regions) = 1
            /\ size = 5120 =>
                  /\ Cardinality(n_regions) = 2
                  /\ \A lo \in RegionsOfSlot(0), hi \in RegionsOfSlot(1) :
                        hi.guest_phys_addr - (lo.guest_phys_addr + lo.memory_size) = 768
            /\ \A r \in n_regions :
                  /\ r.memory_size > 0
                  /\ ~Intersect(r.guest_phys_addr, r.memory_size, 3328, 768)
                  /\ \A q \in n_regions \ {r} :
                        /\ ~Intersect(r.guest_phys_addr, r.memory_size,
                                      q.guest_phys_addr, q.memory_size)
                        /\ ~Intersect(r.userspace_addr, r.memory_size,
                                      q.userspace_addr, q.memory_size)

\* A VM of 5 GiB is built with its two slots.
C7_TwoSlotsFor5GiB ==
    /\ n_result = "Ok"
    /\ n_params.memory_size = 5120
    /\ Cardinality(n_regions) = 2

\* How the request c_memory fared: taken (another field may still be refused),
\* or refused as too small.
MemorySizeAccepted == Past("params") \/ (n_pc = "params" /\ n_error = "TryFromInt")
MemorySizeRefused == n_pc = "params" /\ n_error = "InvalidMemorySize"

\* The size a request names, where it names one.
RequestedSize(req) ==
    CASE req.how = "try_from" -> req.value
      [] req.how = "from_str" /\ Len(req.str) = 2 /\ req.str[2] = "MiB" -> req.str[1]
      [] req.how = "from_str" /\ Len(req.str) = 2 /\ req.str[2] = "GiB" -> 1024 * req.str[1]

NamesSize(req) ==
    \/ req.how = "try_from"
    \/ req.how = "from_str" /\ Len(req.str) = 2 /\ req.str[2] \in {"MiB", "GiB"}

\* C8: building a GuestMemorySize (TryFrom<Byte> or FromStr) fails with the
\* invalid-memory-size error for every value below 16 MiB and succeeds,
\* keeping the value, for every value from 16 MiB on; the default is 64 MiB;
\* so every size that reaches Uhyve::new is at least 16 MiB.
C8_GuestMemorySizeMinimum ==
    /\ (n_result # "running" \/ Past("params")) =>
          /\ (NamesSize(c_memory) /\ RequestedSize(c_memory) < 16) => MemorySizeRefused
          /\ (NamesSize(c_memory) /\ RequestedSize(c_memory) >= 16) =>
                /\ MemorySizeAccepted
                /\ Past("params") => n_params.memory_size = RequestedSize(c_memory)
          /\ (c_memory.how = "default") =>
                /\ MemorySizeAccepted
                /\ Past("params") => n_params.memory_size = 64
    /\ Past("params") => n_params.memory_size >= 16 /\ n_mem.memory_size \in {0, n_params.memory_size}

\* A request of exactly 16 MiB has been accepted and memory of 16 MiB mapped.
C8_SixteenMiBAccepted ==
    /\ NamesSize(c_memory)
    /\ RequestedSize(c_memory) = 16
    /\ Past("mmap")
    /\ n_mem.memory_size = 16

GdbWithSeveralCpus == c_gdb_port = "Some" /\ n_params.cpu_count > 1

\* C9: with gdb_port set and cpu_count > 1, Uhyve::new never returns a VM:
\* construction that gets to the assertion stops there with the assertion's
\* panic; with gdb_port unset or cpu_count = 1 the assertion does not fire.
C9_GdbNeedsSingleCpu ==
    /\ n_result = "Ok" => ~GdbWithSeveralCpus
    /\ Past("assert") => ~GdbWithSeveralCpus
    /\ (n_pc = "assert" /\ n_result # "running") =>
          /\ GdbWithSeveralCpus
          /\ n_result = "panic"
          /\ n_error = "gdbstub is only supported with one CPU"
    /\ (n_error = "gdbstub is only supported with one CPU") =>
          (GdbWithSeveralCpus /\ n_pc = "assert" /\ n_result = "panic")

\* Construction with a gdb port and two vCPUs has stopped at the assertion.
C9_AssertionFired ==
    /\ c_gdb_port = "Some"
    /\ n_params.cpu_count = 2
    /\ n_pc = "assert"
    /\ n_result = "panic"

\* C10: both capability checks are fatal in the direction the specification
\* gives: construction aborts if the TSC-deadline enable call succeeds and
\* aborts if IRQ-FD is not available (its enable call fails); where the
\* TSC-deadline call fails and the IRQ-FD call succeeds, construction goes on
\* past both checks.
C10_CapabilityChecks ==
    /\ n_host.tsc_deadline = "Ok" => (n_pc = "tsc_deadline" /\ n_result = "panic")
    /\ n_host.irqfd = "Err" => (n_pc = "irqfd" /\ n_result = "panic")
    /\ (n_host.tsc_deadline = "Err" /\ n_host.irqfd = "Ok") => Past("irqfd")

(***************************************************************************)
(* The guest's page tables (checked under SpecNew).                        *)
(***************************************************************************)
\* Virtual addresses below 1 GiB: the first, an inner and the last byte of
\* every 2 MiB page.
WalkedAddresses ==
    {i * Size2MiB + off : i \in TableIndex, off \in {0, 4097, Size2MiB - 1}}

\* C18: once Uhyve::new has returned Ok, PML4[0] points to BOOT_PDPTE and
\* PML4[511] to BOOT_PML4, PDPT[0] points to BOOT_PDE, all three
\* PRESENT|WRITABLE; PDE[i] maps i * 2 MiB with PRESENT|WRITABLE|HUGE for
\* every i below 512; and the walk of any virtual address below 1 GiB ends
\* at the PDE level and yields the same physical address.
C18_BootPageTables ==
    n_result = "Ok" =>
        /\ TableEntry(n_tables, BOOT_PML4, 0) = BOOT_PDPTE + PRESENT + WRITABLE
        /\ TableEntry(n_tables, BOOT_PML4, PageTableEntries - 1)
              = BOOT_PML4 + PRESENT + WRITABLE
        /\ TableEntry(n_tables, BOOT_PDPTE, 0) = BOOT_PDE + PRESENT + WRITABLE
        /\ \A i \in TableIndex :
              TableEntry(n_tables, BOOT_PDE, i)
                  = i * Size2MiB + PRESENT + WRITABLE + HUGE_PAGE
        /\ \A va \in WalkedAddresses :
              Walk(n_tables, va) = [ok |-> TRUE, level |-> "PDE", pa |-> va]

\* Construction has returned Ok and the last byte below 1 GiB walks to itself.
C18_LastPageWalks ==
    /\ n_result = "Ok"
    /\ Walk(n_tables, PageTableEntries * Size2MiB - 1).pa = PageTableEntries * Size2MiB - 1
    /\ Walk(ZeroedTables, 0).ok = FALSE


(***************************************************************************)
(* Properties of the loader (checked under SpecLoad).                      *)
(***************************************************************************)
Returned_(how) == l_pc = "returned" /\ l_result = how
LoadOk == Returned_("Ok")

\* The image is one load_kernel gets past its checks with.
PassesChecks ==
    /\ l_image.readable /\ l_image.parses
    /\ l_image.libraries = <<>>
    /\ l_image.e_machine = "EM_X86_64"
    /\ \A i \in 1..Len(l_image.notes.list) :
          LET note == l_image.notes.list[i]
          IN  (note.name = "HERMIT" /\ note.n_type = "NT_HERMIT_ENTRY_VERSION") => note.desc = 1

\* C11: once load_kernel has got past its checks, (offset, entry_point) is
\* (0x400000, 0x400000 + e_entry) for an ET_DYN image and (0x800000, e_entry)
\* for any other image.
C11_OffsetAndEntryPoint ==
    (l_pc = "returned" /\ PassesChecks) =>
        IF l_image.e_type = "ET_DYN"
        THEN l_offset = 4194304 /\ l_entry_point = 4194304 + l_image.entry
        ELSE l_offset = 8388608 /\ l_entry_point = l_image.entry

\* A position-independent image with e_entry = 0x1000 has been loaded: its
\* entry point is 0x401000.
C11_PieEntryPoint ==
    /\ LoadOk
    /\ l_image.e_type = "ET_DYN"
    /\ l_image.entry = 4096
    /\ l_entry_point = 4198400

\* The PT_LOAD segments of the image, and where the loader places the k-th.
LoadSegments == {k \in 1..Len(l_image.program_headers) :
                    l_image.program_headers[k].p_type = "PT_LOAD"}
PlacedAt(k) ==
    IF l_image.e_type = "ET_DYN"
    THEN 4194304 + l_image.program_headers[k].p_vaddr
    ELSE l_image.program_headers[k].p_vaddr
LoadBase == IF l_image.e_type = "ET_DYN" THEN 4194304 ELSE 8388608

\* The byte the k-th segment is to hold at distance d from its start.
SegmentByte(k, d) ==
    LET h == l_image.program_headers[k]
    IN  IF d < h.p_filesz THEN (((h.p_offset + d) % 250) + 1) ELSE 0

\* The addresses the store logged as `w` goes to.
StoredTo(w) ==
    CASE w.kind = "copy" ->
            PlacedAt(w.idx)..(PlacedAt(w.idx) + l_image.program_headers[w.idx].p_filesz - 1)
      [] w.kind = "zero" ->
            (PlacedAt(w.idx) + l_image.program_headers[w.idx].p_filesz)
                ..(PlacedAt(w.idx) + l_image.program_headers[w.idx].p_memsz - 1)
      [] w.kind = "reloc" ->
            (LoadBase + l_image.dynrelas[w.idx].r_offset)
                ..(LoadBase + l_image.dynrelas[w.idx].r_offset + 7)
      [] OTHER -> {}

\* Address a is stored to again after the k-th segment has been placed.
RewrittenAfter(k, a) ==
    \E p, q \in DOMAIN l_writes :
        /\ p < q
        /\ l_writes[p] = [kind |-> "copy", idx |-> k]
        /\ ~(l_writes[q].kind \in {"copy", "zero"} /\ l_writes[q].idx = k)
        /\ a \in StoredTo(l_writes[q])

\* C12 as stated: after load_kernel returns Ok every PT_LOAD segment lies in
\* guest memory, its first p_filesz bytes equal the file's bytes from
\* p_offset on, and the rest of its p_memsz bytes are zero.
C12_SegmentsAsInFile ==
    LoadOk =>
        \A k \in LoadSegments :
            LET h == l_image.program_headers[k]
            IN  /\ PlacedAt(k) + h.p_memsz <= GuestMemLength
                /\ \A d \in 0..(h.p_memsz - 1) :
                      ByteAt(l_mem, PlacedAt(k) + d) = SegmentByte(k, d)

\* C12, amended: after load_kernel returns Ok every PT_LOAD segment lies in
\* guest memory, and every byte of it that load_kernel has not stored to
\* again after placing the segment (a RELATIVE relocation's word, a later
\* segment) equals the file's byte if it is one of the first p_filesz, and
\* is zero otherwise.
C12_SegmentsAsInFileUnlessRewritten ==
    LoadOk =>
        \A k \in LoadSegments :
            LET h == l_image.program_headers[k]
            IN  /\ PlacedAt(k) + h.p_memsz <= GuestMemLength
                /\ \A d \in 0..(h.p_memsz - 1) :
                      \/ RewrittenAfter(k, PlacedAt(k) + d)
                      \/ ByteAt(l_mem, PlacedAt(k) + d) = SegmentByte(k, d)

\* Two segments have been loaded, and a RELATIVE relocation has patched the
\* word the first one starts with: its first byte is no longer the file's,
\* while the second segment holds the file's byte.
C12_RelocatedSegment ==
    /\ LoadOk
    /\ l_image.e_type = "ET_DYN"
    /\ l_image.program_headers = <<LoadA, LoadB>>
    /\ l_image.dynrelas = <<RelaA>>
    /\ ByteAt(l_mem, 4202496) # SegmentByte(1, 0)
    /\ ByteAt(l_mem, 4206592) = SegmentByte(2, 0)
    /\ ~RewrittenAfter(2, 4206592)


\* Some PT_LOAD segment of the image ends after the last byte of guest memory.
SegmentTooLarge ==
    \E k \in LoadSegments :
        PlacedAt(k) + l_image.program_headers[k].p_memsz > GuestMemLength

BootInfoStores == {p \in DOMAIN l_writes : l_writes[p].kind = "boot_info"}

\* C13: load_kernel returns InsufficientMemory whenever some PT_LOAD segment
\* of an image that passes the checks ends after guest memory; it has then
\* stored nothing outside guest memory and no BootInfo, the boot_info
\* pointer is null, and cpu_online() returns 0.
C13_InsufficientMemory ==
    (l_pc = "returned" /\ PassesChecks /\ SegmentTooLarge) =>
        /\ l_result = "Err"
        /\ l_error = "InsufficientMemory"
        /\ \A a \in DOMAIN l_mem : 0 <= a /\ a < GuestMemLength
        /\ BootInfoStores = {}
        /\ ~l_raw.written
        /\ l_boot_info = "null"
        /\ l_cpus # {} => l_raw.cpu_online = 0
        /\ l_seen.op = "cpu_online" => l_seen.val = 0

\* The second segment of an image did not fit: the first one is in guest
\* memory, load_kernel has returned InsufficientMemory, a vCPU has been
\* created and cpu_online() has returned 0.
C13_SecondSegmentTooLarge ==
    /\ Returned_("Err")
    /\ l_error = "InsufficientMemory"
    /\ l_ph = 2
    /\ l_mem # NoBytes
    /\ l_cpus # {}
    /\ l_seen = [op |-> "cpu_online", val |-> 0]

\* C14: after load_kernel returns Ok, for every RELATIVE relocation the 64-bit
\* word at base + r_offset is base + r_addend, and no relocation of another
\* kind has stored anything to guest memory.
C14_RelativeRelocations ==
    LoadOk =>
        /\ \A j \in 1..Len(l_image.dynrelas) :
              LET rela == l_image.dynrelas[j]
                  word == LoadBase + rela.r_addend
              IN  rela.r_type \in {"R_X86_64_RELATIVE", "R_AARCH64_RELATIVE"} =>
                     /\ ByteAt(l_mem, LoadBase + rela.r_offset) = word % 256
                     /\ ByteAt(l_mem, LoadBase + rela.r_offset + 1) = (word \div 256) % 256
                     /\ ByteAt(l_mem, LoadBase + rela.r_offset + 2) = (word \div 65536) % 256
                     /\ ByteAt(l_mem, LoadBase + rela.r_offset + 3) = (word \div 16777216) % 256
                     /\ \A k \in 4..7 : ByteAt(l_mem, LoadBase + rela.r_offset + k) = 0
        /\ \A p \in DOMAIN l_writes :
              l_writes[p].kind = "reloc" =>
                 l_image.dynrelas[l_writes[p].idx].r_type
                     \in {"R_X86_64_RELATIVE", "R_AARCH64_RELATIVE"}
        /\ \A j \in 1..Len(l_image.dynrelas) :
              l_image.dynrelas[j].r_type = "R_X86_64_64" =>
                 \A k \in 0..7 :
                    LET a == LoadBase + l_image.dynrelas[j].r_offset + k
                    IN  \/ \E h \in LoadSegments :
                              /\ a >= PlacedAt(h)
                              /\ a < PlacedAt(h) + l_image.program_headers[h].p_memsz
                              /\ ByteAt(l_mem, a) = SegmentByte(h, a - PlacedAt(h))
                        \/ ByteAt(l_mem, a) = 0

\* A position-independent image with a relocation of each RELATIVE kind and
\* one of another kind has been loaded: the word at 0x402000 is 0x402000, and
\* the other relocation's target holds the byte of the segment loaded there.
C14_ExampleWord ==
    /\ LoadOk
    /\ l_image.e_type = "ET_DYN"
    /\ l_image.dynrelas = <<RelaA, RelaOther>>
    /\ l_image.program_headers = <<LoadB>>
    /\ ByteAt(l_mem, 4202496) = 0
    /\ ByteAt(l_mem, 4202497) = 32
    /\ ByteAt(l_mem, 4202498) = 64
    /\ ByteAt(l_mem, 4206592) = SegmentByte(1, 0)

\* The image is one the checks are to refuse: it depends on a library, is
\* for another machine, or carries an entry-version note with a version
\* other than 1.
ToBeRefused ==
    /\ l_image.readable /\ l_image.parses
    /\ \/ l_image.libraries # <<>>
       \/ l_image.e_machine # "EM_X86_64"
       \/ \E i \in 1..Len(l_image.notes.list) :
             /\ l_image.notes.list[i].name = "HERMIT"
             /\ l_image.notes.list[i].n_type = "NT_HERMIT_ENTRY_VERSION"
             /\ l_image.notes.list[i].desc # 1

Untouched ==
    /\ l_mem = NoBytes
    /\ l_writes = <<>>
    /\ l_offset = 0
    /\ l_entry_point = 0
    /\ l_boot_info = "null"
    /\ ~l_raw.written

\* C15: load_kernel fails with InvalidData, with guest memory, offset,
\* entry_point and boot_info as they were, for an image that depends on a
\* library, is for another machine or carries an entry-version note with a
\* version other than 1; an image without such a note is not refused for it.
C15_InvalidImageRefused ==
    /\ (l_pc = "returned" /\ ToBeRefused) =>
          /\ l_result = "Err"
          /\ l_error = "Io(InvalidData)"
          /\ Untouched
    /\ (l_pc = "returned" /\ PassesChecks) =>
          /\ l_error # "Io(InvalidData)"
          /\ l_offset # 0

\* An image for the host's machine and without libraries has been refused
\* for its entry version 2, and an image without notes gets past the checks.
C15_WrongVersionRefused ==
    /\ Returned_("Err")
    /\ l_error = "Io(InvalidData)"
    /\ l_image.libraries = <<>>
    /\ l_image.e_machine = "EM_X86_64"
    /\ l_image.notes = Notes(<<OtherNote, HermitNote(2)>>)
    /\ Untouched

\* C16: after a successful load_kernel BootInfo.uartport is UHYVE_UART_PORT,
\* which is not zero, if the VM is verbose, and 0 if it is not.
C16_UartportIffVerbose ==
    LoadOk =>
        /\ l_raw.written
        /\ l_verbose => (l_raw.uartport = UHYVE_UART_PORT /\ l_raw.uartport # 0)
        /\ ~l_verbose => l_raw.uartport = 0

\* A verbose VM's kernel has been loaded and BootInfo announces the UART port.
C16_VerboseAnnouncesUart ==
    /\ LoadOk
    /\ l_verbose
    /\ l_raw.uartport = 2048

\* The fields of BootInfo the host stores.
HostFields(raw) == [raw EXCEPT !.cpu_online = 0]

C17_StoredOnceAndLast ==
    /\ LoadOk =>
          /\ Cardinality(BootInfoStores) = 1
          /\ Len(l_writes) \in BootInfoStores
          /\ l_raw.written
    /\ ~LoadOk => (BootInfoStores = {} /\ ~l_raw.written)

C17_HostLeavesBootInfo ==
    l_pc = "returned" =>
        /\ l_writes' = l_writes
        /\ HostFields(l_raw') = HostFields(l_raw)
        /\ l_mem' = l_mem
        /\ (l_seen' # l_seen \/ l_cpus' # l_cpus) => l_raw' = l_raw
        /\ (l_seen' # l_seen /\ l_seen'.op = "cpu_online") =>
              l_seen'.val = (IF l_boot_info = "null" THEN 0 ELSE l_raw.cpu_online)

\* C17: BootInfo is stored once, as the last store of a successful
\* load_kernel to guest memory; afterwards create_cpu, cpu_online and the
\* getters store nothing to it, and cpu_online returns the counter the guest
\* keeps, or 0 while no BootInfo is published.
C17_BootInfoWrittenOnce ==
    [](C17_StoredOnceAndLast) /\ [][C17_HostLeavesBootInfo]_vars

\* After a load with segments and relocations, whose last store is that of
\* BootInfo, a vCPU has been created, the guest has counted itself and
\* cpu_online() has returned 1.
C17_GuestCountedAfterLoad ==
    /\ LoadOk
    /\ Len(l_writes) >= 3
    /\ l_writes[Len(l_writes)].kind = "boot_info"
    /\ l_cpus # {}
    /\ l_raw.cpu_online = 1
    /\ l_seen = [op |-> "cpu_online", val |-> 1]


(***************************************************************************)
(* The hypercall handlers of trait VirtualCPU (src/vm.rs, 146-316).  The   *)
(* guest leaves an argument block in its memory and exits; the handler     *)
(* reads and fills the block and makes the host's system call.  The        *)
(* methods virt_to_phys and host_address are implemented in vcpu.rs, which *)
(* is not among the sources: virt_to_phys is the walk of the guest's page  *)
(* tables, host_address adds the address guest memory is mapped at.        *)
(***************************************************************************)
\* bytes a READ or WRITE asks for at most
MaxIo == 2
\* const MAX_ARGC: usize = 128
MAX_ARGC == 128
\* const MAX_ENVC: usize = 128
MAX_ENVC == 128

\* Guest-virtual addresses the guest passes: one in the first 2 MiB page, one
\* in the second, which the guest may map elsewhere.
GuestPointers == {4096, Size2MiB + 4096}
Fds == {1, 3}

\* fn virt_to_phys(&self, addr: usize) -> usize
VirtToPhys(addr) == Walk(n_tables, addr).pa
\* fn host_address(&self, addr: usize) -> usize: n_mem.host_address + addr,
\* kept as the pair, the base being counted in MiB
HostAddress(addr) == [base |-> n_mem.host_address, byte |-> addr]

\* A guest pointer used after translation, and one used as it is.
Translated(name, ptr) ==
    [name |-> name, ptr |-> ptr, via |-> <<"virt_to_phys", "host_address">>,
     host |-> HostAddress(VirtToPhys(ptr))]
Untranslated(name, ptr) ==
    [name |-> name, ptr |-> ptr, via |-> <<"host_address">>, host |-> HostAddress(ptr)]

\* The guest replaces the mapping of its second 2 MiB page.
GuestRemap ==
    /\ h_pc = "guest"
    /\ VirtToPhys(Size2MiB) = Size2MiB
    /\ n_tables' = [n_tables EXCEPT ![BOOT_PDE] =
                       StoreEntries(@, 1 :> SetAddr(3 * Size2MiB,
                                                    PRESENT + WRITABLE + HUGE_PAGE))]
    /\ UNCHANGED <<netvars, loadvars, hypervars, config, n_pc, n_result, n_error, n_params,
                   n_mem, n_regions, n_host, n_device>>

\* A handler returns to the run loop.
Handled(op, block, sys, ptrs, how) ==
    /\ h_pc' = "done"
    /\ h_op' = op
    /\ h_block' = block
    /\ h_sys' = sys
    /\ h_ptrs' = ptrs
    /\ h_return' = how
    /\ UNCHANGED <<netvars, newvars, loadvars, h_local, h_copied, h_env, h_sizes>>

\* fn unlink(&self, sysunlink: &mut SysUnlink)
Unlink ==
    /\ h_pc = "guest"
    /\ \E name \in GuestPointers, result \in {0, -1} :
          Handled("UNLINK", [name |-> name, ret |-> result],
                  [name |-> "unlink", result |-> result],
                  {Untranslated("name", name)}, "Ok")

\* fn open(&self, sysopen: &mut SysOpen)
Open ==
    /\ h_pc = "guest"
    /\ \E name \in GuestPointers, result \in {3, -1} :
          Handled("OPEN", [name |-> name, flags |-> 0, mode |-> 0, ret |-> result],
                  [name |-> "open", result |-> result],
                  {Untranslated("name", name)}, "Ok")

\* fn close(&self, sysclose: &mut SysClose)
Close ==
    /\ h_pc = "guest"
    /\ \E fd \in Fds, result \in {0, -1} :
          Handled("CLOSE", [fd |-> fd, ret |-> result],
                  [name |-> "close", result |-> result], {}, "Ok")

\* if bytes_read >= 0 { sysread.ret = bytes_read } else { sysread.ret = -1 }
ReadRet(bytes_read) == IF bytes_read >= 0 THEN bytes_read ELSE -1

\* fn read(&self, sysread: &mut SysRead)
Read ==
    /\ h_pc = "guest"
    /\ \E fd \in Fds, buf \in GuestPointers, len \in 0..MaxIo :
          \E bytes_read \in {-1} \cup 0..len :
             Handled("READ", [fd |-> fd, buf |-> buf, len |-> len, ret |-> ReadRet(bytes_read)],
                     [name |-> "read", result |-> bytes_read],
                     {Translated("buf", buf)}, "Ok")

\* fn write(&self, syswrite: &SysWrite) -> io::Result<()>, up to the loop
WriteEnter ==
    /\ h_pc = "guest"
    /\ \E fd \in Fds, buf \in GuestPointers, len \in 0..MaxIo :
          /\ h_block' = [fd |-> fd, buf |-> buf, len |-> len]
          /\ h_ptrs' = {Translated("buf", buf)}
    /\ h_pc' = "write"
    /\ h_op' = "WRITE"
    /\ h_local' = 0
    /\ h_sys' = NoSys
    /\ h_return' = "none"
    /\ UNCHANGED <<netvars, newvars, loadvars, h_copied, h_env, h_sizes>>

\* The count of one libc::write call that asks for all of the buffer again
WriteCountWhole(len, bytes_written) == len
\* syswrite.len - bytes_written, the count of one libc::write call
WriteCount(len, bytes_written) == len - bytes_written

\* The buffer of the running write: virt_to_phys(syswrite.buf)
WriteBuffer == VirtToPhys(h_block.buf)

\* The bytes the host takes from the buffer in the call issued at
\* bytes_written that returns step: the first `step` bytes of what it was given.
Accepted(bytes_written, step) ==
    {[host |-> HostAddress(WriteBuffer + bytes_written + k), call |-> bytes_written] :
        k \in 0..(step - 1)}

\* while bytes_written != syswrite.len { let step = libc::write(..); .. },
\* one test of the loop condition and one pass of the body; the host's
\* write accepts at least `least` and at most `count` bytes, or fails.
WriteLoopFrom(least) ==
    /\ h_pc = "write"
    /\ IF h_local = h_block.len
       THEN /\ h_pc' = "done"
            /\ h_return' = "Ok"
            /\ UNCHANGED <<h_local, h_sys, h_copied>>
       ELSE LET count == WriteCount(h_block.len, h_local)
            IN  \E step \in {-1} \cup least..count :
                   /\ h_sys' = [name |-> "write", result |-> step,
                                addr |-> HostAddress(WriteBuffer + h_local),
                                count |-> count]
                   /\ IF step >= 0
                      THEN /\ h_local' = h_local + step
                           /\ h_copied' = h_copied \cup Accepted(h_local, step)
                           /\ UNCHANGED <<h_pc, h_return>>
                      ELSE /\ h_pc' = "done"
                           /\ h_return' = "Err"
                           /\ UNCHANGED <<h_local, h_copied>>
    /\ UNCHANGED <<netvars, newvars, loadvars, h_op, h_block, h_ptrs, h_env, h_sizes>>

\* The loop on a host whose write may accept nothing.
WriteLoop == WriteLoopFrom(0)

\* The loop on a host whose write accepts at least one byte when it succeeds.
WriteProgress == WriteLoopFrom(1)

\* fn lseek(&self, syslseek: &mut SysLseek)
Lseek ==
    /\ h_pc = "guest"
    /\ \E fd \in Fds, offset \in {0, 1}, result \in {0, 1, -1} :
          Handled("LSEEK", [fd |-> fd, offset |-> result, whence |-> 0],
                  [name |-> "lseek", result |-> result], {}, "Ok")

\* fn exit(&self, sysexit: &SysExit) -> i32
Exit ==
    /\ h_pc = "guest"
    /\ \E arg \in {0, 1} :
          Handled("EXIT", [arg |-> arg], NoSys, {}, "Ok")

\* fn uart(&self, buf: &[u8]) -> io::Result<()>
Uart ==
    /\ h_pc = "guest"
    /\ \E result \in {0, -1} :
          Handled("UART", NoBlock, [name |-> "write_all", result |-> result], {},
                  IF result = 0 THEN "Ok" ELSE "Err")

\* n application arguments, n environment variables.
Arguments(n) == [i \in 1..n |-> <<"a">>]
Variables(n) == [i \in 1..n |-> [key |-> <<"K">>, value |-> <<"v">>]]

\* The host process: the kernel's path, the application's arguments and the
\* environment, as strings of bytes.  The longest argument list fills argsz
\* and the one after it does not fit; the longest environment has more
\* variables than envsz has entries.
HostProcesses ==
    [path : {<<"k">>},
     args : {<<>>, << <<"a", "b">> >>, Arguments(MAX_ARGC - 1), Arguments(MAX_ARGC)},
     vars : {<<>>, << [key |-> <<"H">>, value |-> <<"x", "y">>] >>, Variables(MAX_ENVC + 1)}]

\* An index into an array of n entries that Rust lets through; any other panics.
InBounds(index, n) == 0 <= index /\ index < n

\* syssize.argsz[0] = path.len() + 1, then syssize.argsz[counter + 1] =
\* argument.len() + 1 for each argument: the stores the handler makes up to
\* the first index out of bounds, as index -> value.
ArgSizes(path, args) ==
    LET stores == {i \in 0..Len(args) : \A k \in 0..i : InBounds(k, MAX_ARGC)}
    IN  [i \in stores |-> IF i = 0 THEN Len(path) + 1 ELSE Len(args[i]) + 1]

\* An argument makes the handler index argsz out of bounds.
ArgSizesPanics(args) == \E k \in 0..Len(args) : ~InBounds(k, MAX_ARGC)

\* The environment loop's counter at its end: it counts a variable only
\* while counter < MAX_ENVC.
EnvCount(env) == IF Len(env) < MAX_ENVC THEN Len(env) ELSE MAX_ENVC

\* syssize.envsz[counter] = key.len() + value.len() + 2, as index -> value
EnvSizes(env) ==
    [j \in 0..(EnvCount(env) - 1) |-> Len(env[j + 1].key) + Len(env[j + 1].value) + 2]

\* fn cmdsize(&self, syssize: &mut SysCmdsize)
Cmdsize ==
    /\ h_pc = "guest"
    /\ h_pc' = "done"
    /\ h_op' = "CMDSIZE"
    /\ h_sys' = NoSys
    /\ h_ptrs' = {}
    /\ IF ArgSizesPanics(h_env.args)
       THEN /\ h_block' = [argc |-> 0, argsz |-> ArgSizes(h_env.path, h_env.args),
                           envc |-> 0, envsz |-> <<>>]
            /\ h_return' = "panic"
            /\ UNCHANGED h_sizes
       ELSE /\ h_block' = [argc |-> Len(h_env.args) + 1,
                           argsz |-> ArgSizes(h_env.path, h_env.args),
                           envc |-> EnvCount(h_env.vars),
                           envsz |-> EnvSizes(h_env.vars)]
            /\ h_return' = "Ok"
            /\ h_sizes' = h_block'
    /\ UNCHANGED <<netvars, newvars, loadvars, h_local, h_copied, h_env>>

\* The pointer the guest has stored at index i (from 0) of the array at
\* `array`: its strings lie behind the array, 16 bytes apart.
GuestArrayEntry(array, i) == array + 2048 + 16 * i

\* The bytes of a C string, and of an environment entry key=value.
CString(str) == str \o <<0>>
EnvString(var) == var.key \o <<"=">> \o var.value \o <<0>>

\* fn cmdval(&self, syscmdval: &SysCmdval)
Cmdval ==
    /\ h_pc = "guest"
    /\ \E argv \in GuestPointers :
          LET envp == argv + 8192
              strings == <<h_env.path>> \o h_env.args
              argvptr(i) == GuestArrayEntry(argv, i - 1)
              envptr(i) == GuestArrayEntry(envp, i - 1)
              envc == EnvCount(h_env.vars)
          IN  /\ h_block' = [argv |-> argv, envp |-> envp]
              /\ h_ptrs' = {Untranslated("argv", argv), Untranslated("envp", envp)}
                    \cup {Untranslated("argv[]", argvptr(i)) : i \in 1..Len(strings)}
                    \cup {Untranslated("envp[]", envptr(i)) : i \in 1..envc}
              /\ h_copied' =
                    {[host |-> HostAddress(argvptr(i)), bytes |-> CString(strings[i])] :
                        i \in 1..Len(strings)}
                    \cup {[host |-> HostAddress(envptr(i)), bytes |-> EnvString(h_env.vars[i])] :
                             i \in 1..envc}
    /\ h_pc' = "done"
    /\ h_op' = "CMDVAL"
    /\ h_sys' = NoSys
    /\ h_return' = "Ok"
    /\ UNCHANGED <<netvars, newvars, loadvars, h_local, h_env, h_sizes>>

\* The run loop goes on after a handler that returned normally: the guest
\* runs until its next exit.  An error ends the run.
Resume ==
    /\ h_pc = "done"
    /\ h_return = "Ok"
    /\ h_op # "EXIT"
    /\ h_pc' = "guest"
    /\ h_op' = "none"
    /\ h_block' = NoBlock
    /\ h_return' = "none"
    /\ h_sys' = NoSys
    /\ h_ptrs' = {}
    /\ h_local' = 0
    /\ h_copied' = {}
    /\ UNCHANGED <<netvars, newvars, loadvars, h_env, h_sizes>>

\* The kernel the guest runs: a position-independent image of one segment
\* and one relocation, loaded by load_kernel.
RunningImage ==
    [readable |-> TRUE, parses |-> TRUE, libraries |-> <<>>, e_type |-> "ET_DYN",
     e_machine |-> ELF_HOST_ARCH, notes |-> Notes(<<HermitNote(1)>>), entry |-> 4096,
     size |-> 2048, program_headers |-> <<LoadA>>, dynrelas |-> <<RelaA>>]

KernelLoaded ==
    LET st == LoadChecked(RunningImage, FALSE, GuestMemLength, NoBytes)
    IN  /\ l_pc = "returned"
        /\ l_result = "Ok"
        /\ l_error = ""
        /\ l_image = RunningImage
        /\ l_verbose = FALSE
        /\ l_ph = st.ph
        /\ l_rela = st.rela
        /\ l_offset = StartAddress(TRUE)
        /\ l_entry_point = ElfEntry(TRUE, RunningImage.entry)
        /\ l_image_size = st.image_size
        /\ l_tls_info = st.tls_info
        /\ l_mem = st.mem
        /\ l_raw = [st.raw EXCEPT !.cpu_online = 1]
        /\ l_boot_info = st.boot_info
        /\ l_writes = st.writes
        /\ l_cpus = {NewCpu(0)}
        /\ l_seen = NoCall

InitHyper ==
    /\ NetInit
    /\ NewBuilt
    /\ KernelLoaded
    /\ NoHypercall
    /\ h_env \in HostProcesses
    /\ h_sizes = NoSizes

NextHyper ==
    \/ GuestRemap
    \/ Unlink
    \/ Open
    \/ Close
    \/ Read
    \/ WriteEnter
    \/ WriteLoop
    \/ Lseek
    \/ Exit
    \/ Uart
    \/ Cmdsize
    \/ Cmdval
    \/ Resume

SpecHyper == InitHyper /\ [][NextHyper]_vars

\* The WRITE hypercall on a host whose write accepts at least one byte
\* whenever it succeeds; the thread that runs the handler keeps running.
NextWrite ==
    \/ GuestRemap
    \/ WriteEnter
    \/ WriteProgress
    \/ Resume

SpecWrite == InitHyper /\ [][NextWrite]_vars /\ WF_vars(WriteProgress)

(***************************************************************************)
(* Where load_kernel places the segments in the memory Uhyve::new has      *)
(* registered (src/vm.rs, 381, 402-408, 442-462, 521-524), for any memory  *)
(* size.  Addresses and sizes are counted in MiB here, as memory sizes are *)
(* in the configuration; the images' segments start and end on whole MiB.  *)
(***************************************************************************)
MiB == 1048576

\* A segment of one MiB at guest address vaddr (in MiB).
SegmentAt(vaddr) ==
    [p_type |-> "PT_LOAD", p_vaddr |-> vaddr, p_offset |-> 0,
     p_filesz |-> 1, p_memsz |-> 1, p_align |-> 1]

\* Kernels of one or two segments: low in memory, in the gap below 4 GiB,
\* at 4 GiB, and at the end of a 5 GiB memory.
PlacedImages ==
    {[RunningImage EXCEPT !.e_type = e_type, !.program_headers = program_headers,
                          !.dynrelas = <<>>] :
        e_type \in {"ET_DYN", "ET_EXEC"},
        program_headers \in
            {<<SegmentAt(8)>>} \cup
            {<<SegmentAt(8), SegmentAt(vaddr)>> :
                vaddr \in {15, 16, KVM_32BIT_GAP_START - 1, KVM_32BIT_GAP_START,
                           KVM_32BIT_MAX_MEM_SIZE - 1, KVM_32BIT_MAX_MEM_SIZE, 5119, 5120}}}

\* [region_start, region_start + p_memsz) of the k-th program header
PlacedRegion(image, k) ==
    LET start == RegionStart(IsDyn(image), StartAddress(IsDyn(image)) \div MiB,
                             image.program_headers[k])
    IN  [kind |-> "place", idx |-> k, start |-> start,
         end |-> start + image.program_headers[k].p_memsz]

\* The PT_LOAD headers that do not fit: try_for_each stops at the first.
TooLarge(image, vm_mem_length) ==
    {k \in DOMAIN image.program_headers :
        /\ image.program_headers[k].p_type = "PT_LOAD"
        /\ ExceedsMemory(PlacedRegion(image, k).start, image.program_headers[k],
                         vm_mem_length)}

\* The headers try_for_each gets through.
PlacedHeaders(image, vm_mem_length) ==
    {k \in DOMAIN image.program_headers : \A j \in 1..k : j \notin TooLarge(image, vm_mem_length)}

\* load_kernel on the VM as Uhyve::new built it: guest_mem() is the whole
\* mapping, (mem.host_address, mem.memory_size).
PlaceKernel ==
    /\ n_result = "Ok"
    /\ l_result = "idle"
    /\ \E image \in PlacedImages :
          LET vm_mem_length == n_mem.memory_size
              placed == PlacedHeaders(image, vm_mem_length)
              ok == TooLarge(image, vm_mem_length) = {}
          IN  /\ l_image' = image
              /\ l_pc' = "returned"
              /\ l_result' = IF ok THEN "Ok" ELSE "Err"
              /\ l_error' = IF ok THEN "" ELSE "InsufficientMemory"
              /\ l_ph' = Cardinality(placed)
              /\ l_writes' = [k \in 1..Cardinality(placed) |-> PlacedRegion(image, k)]
              /\ l_offset' = StartAddress(IsDyn(image)) \div MiB
              /\ l_raw' = IF ok
                          THEN [NoBootInfo EXCEPT !.written = TRUE,
                                                  !.base = StartAddress(IsDyn(image)) \div MiB,
                                                  !.limit = vm_mem_length,
                                                  !.image_size = Cardinality(placed)]
                          ELSE l_raw
    /\ UNCHANGED <<netvars, newvars, hypervars, l_verbose, l_rela, l_entry_point,
                   l_image_size, l_tls_info, l_mem, l_boot_info, l_cpus, l_seen>>

NextPlace ==
    \/ NextNew
    \/ PlaceKernel

SpecPlace == InitNew /\ [][NextPlace]_vars

(***************************************************************************)
(* Properties of the hypercall handlers (checked under SpecHyper).         *)
(***************************************************************************)
FileHypercalls == {"OPEN", "CLOSE", "READ", "WRITE", "LSEEK", "UNLINK"}

\* What the handler has left for the guest in the argument block.
Reported == IF h_op = "LSEEK" THEN h_block.offset
            ELSE IF "ret" \in DOMAIN h_block THEN h_block.ret ELSE 0

\* C19: the handler of a file hypercall whose host system call failed
\* returns normally and has left a negative result in the argument block;
\* READ leaves -1 on failure and the number of bytes read on success.
C19_FileErrorsRecoveredLocally ==
    (h_pc = "done" /\ h_op \in FileHypercalls) =>
        /\ h_sys.result < 0 => (h_return = "Ok" /\ Reported < 0)
        /\ h_op = "READ" =>
              h_block.ret = (IF h_sys.result < 0 THEN -1 ELSE h_sys.result)

\* C20: every guest pointer a handler has used was translated by
\* virt_to_phys before host_address was applied to it: the host address it
\* used is that of the guest-physical address the pointer is mapped to.
C20_PointersTranslated ==
    \A use \in h_ptrs :
        /\ use.via = <<"virt_to_phys", "host_address">>
        /\ use.host = HostAddress(VirtToPhys(use.ptr))

(***************************************************************************)
(* Properties of the WRITE loop (checked under SpecWrite).                 *)
(***************************************************************************)
InWrite == h_op = "WRITE" /\ h_pc \in {"write", "done"}

\* The host addresses of the bytes the host has accepted so far.
AcceptedAddresses == {a.host : a \in h_copied}

\* The host addresses of the first n bytes of the buffer.
BufferAddresses(n) == {HostAddress(WriteBuffer + k) : k \in 0..(n - 1)}

C21_Bounded == 0 <= h_local /\ h_local <= h_block.len

\* Bytes are accepted in order, none skipped and none twice.
C21_InOrder ==
    /\ AcceptedAddresses = BufferAddresses(h_local)
    /\ Cardinality(h_copied) = h_local

\* The last host call asked for what remained, from where the accepted
\* bytes ended.
C21_CallForRemainder ==
    h_sys.name = "write" =>
        LET before == IF h_sys.result >= 0 THEN h_local - h_sys.result ELSE h_local
        IN  /\ h_sys.addr = HostAddress(WriteBuffer + before)
            /\ h_sys.count = h_block.len - before
            /\ h_sys.result < 0 => (h_pc = "done" /\ h_return = "Err")

C21_OkOnlyWhenComplete ==
    (h_pc = "done" /\ h_return = "Ok") =>
        /\ h_local = h_block.len
        /\ AcceptedAddresses = BufferAddresses(h_block.len)
        /\ (h_block.len = 0 => h_sys = NoSys)

C21_WriteSafe ==
    InWrite => /\ C21_Bounded
               /\ C21_InOrder
               /\ C21_CallForRemainder
               /\ C21_OkOnlyWhenComplete

C21_WriteTerminates == (h_pc = "write") ~> (h_pc = "done")

\* C21: the write handler keeps 0 <= bytes_written <= len, issues each host
\* write for the remaining bytes from buffer + bytes_written, stops with an
\* error at the first negative result, returns Ok only when the host has
\* accepted exactly the len bytes of the buffer, and terminates when every
\* host result is negative or at least 1.
C21_WriteLoopComplete == [](C21_WriteSafe) /\ C21_WriteTerminates

\* A write of two bytes that the host accepted in two calls has returned Ok.
C21_TwoCallsThenOk ==
    /\ h_pc = "done"
    /\ h_op = "WRITE"
    /\ h_return = "Ok"
    /\ h_block.len = 2
    /\ h_sys.name = "write"
    /\ h_sys.count = 1

(***************************************************************************)
(* Ownership of the queues' counters (checked under Spec).                 *)
(***************************************************************************)
ReaderLoopStep == Reader /\ r_pc # "init"
WriterLoopStep == Writer /\ w_pc # "init"
HostStep == MainSpawnWriter \/ MainSpawnReader \/ MainReturn \/ Writer \/ Reader

\* A step of the reader's loop leaves RX `read` and the TX queue alone and
\* adds 1 to RX `written` when it changes it, once per frame received.
C22_ReaderLoopFrame ==
    ReaderLoopStep =>
        /\ UNCHANGED <<tx_queue, tx_inner>>
        /\ rx_queue'.read = rx_queue.read
        /\ \/ rx_queue'.written = rx_queue.written
           \/ /\ rx_queue'.written = rx_queue.written + 1
              /\ rx_queue'.written = Len(tap_in)
              /\ UNCHANGED rx_inner

\* A step of the writer's loop leaves TX `written`, the TX slots and the RX
\* queue alone and adds 1 to TX `read` when it changes it, once per frame sent.
C22_WriterLoopFrame ==
    WriterLoopStep =>
        /\ UNCHANGED <<rx_queue, rx_inner, tx_inner>>
        /\ tx_queue'.written = tx_queue.written
        /\ \/ tx_queue'.read = tx_queue.read
           \/ /\ tx_queue'.read = tx_queue.read + 1
              /\ tx_queue'.read = Len(tap_out)

\* No step of the host decreases the counter its thread owns.
C22_HostMonotone ==
    HostStep =>
        /\ rx_queue'.written >= rx_queue.written
        /\ tx_queue'.read >= tx_queue.read

\* C22: in its loop the reader changes only RX `written` (by +1 per frame
\* received) and RX slots, the writer only TX `read` (by +1 per frame sent);
\* under the host's steps neither counter decreases.
C22_CounterOwnership ==
    [][C22_ReaderLoopFrame /\ C22_WriterLoopFrame /\ C22_HostMonotone]_vars

\* The reader has published a frame and the writer has sent one.
C22_BothThreadsAdvanced ==
    /\ rx_queue.written = 1
    /\ Len(tap_in) = 1
    /\ tx_queue.read = 1
    /\ Len(tap_out) = 1

(***************************************************************************)
(* Properties of create_cpu (checked under SpecVm).                        *)
(***************************************************************************)
\* C23: a vCPU holds a sender into the nudge channel exactly when a NIC
\* name was configured, which is exactly when the VM has its network
\* device; all vCPUs of the VM hold clones of the one sender and of the one
\* virtio device handle.
C23_SenderIffNic ==
    n_result = "Ok" =>
        /\ n_device = "Some" <=> c_nic = "Some"
        /\ \A cpu \in l_cpus : cpu.tx # "None" <=> c_nic = "Some"
        /\ \A a, b \in l_cpus : a.tx = b.tx /\ a.virtio_device = b.virtio_device

\* Two vCPUs of a VM with a NIC, each with a sender.
C23_TwoCpusWithSender ==
    /\ c_nic = "Some"
    /\ Cardinality(l_cpus) = 2
    /\ \A cpu \in l_cpus : cpu.tx = "dev.tx.clone()"

(***************************************************************************)
(* Properties of CMDSIZE and CMDVAL (checked under SpecHyper).             *)
(***************************************************************************)
\* The strings cmdval stored at the place the guest's pointer ptr names.
StoredAt(ptr) == {s \in h_copied : s.host = HostAddress(VirtToPhys(ptr))}

\* cmdval has run for a guest that holds the sizes of an earlier CMDSIZE.
AfterBothPhases == h_pc = "done" /\ h_op = "CMDVAL" /\ h_sizes # NoSizes

\* cmdval stored as many strings as CMDSIZE counted, each of the size
\* CMDSIZE reported for its index.
C24_SizesAndCounts ==
    AfterBothPhases =>
        /\ Cardinality(h_copied) = h_sizes.argc + h_sizes.envc
        /\ \A i \in 0..(h_sizes.argc - 1) :
              \E s \in h_copied :
                 /\ s.host.byte = GuestArrayEntry(h_block.argv, i)
                 /\ Len(s.bytes) = h_sizes.argsz[i]
                 /\ s.bytes[Len(s.bytes)] = 0
        /\ \A j \in 0..(h_sizes.envc - 1) :
              \E s \in h_copied :
                 /\ s.host.byte = GuestArrayEntry(h_block.envp, j)
                 /\ Len(s.bytes) = h_sizes.envsz[j]
                 /\ s.bytes[Len(s.bytes)] = 0

\* C24: after CMDSIZE and then CMDVAL, for every i < argc exactly argsz[i]
\* bytes (the string and its NUL) are stored at the guest's argv[i], for
\* every j < envc exactly envsz[j] bytes at the guest's envp[j], and no
\* other string is stored.
C24_TwoPhaseProtocol ==
    AfterBothPhases =>
        /\ C24_SizesAndCounts
        /\ \A i \in 0..(h_sizes.argc - 1) :
              \E s \in StoredAt(GuestArrayEntry(h_block.argv, i)) :
                 Len(s.bytes) = h_sizes.argsz[i]
        /\ \A j \in 0..(h_sizes.envc - 1) :
              \E s \in StoredAt(GuestArrayEntry(h_block.envp, j)) :
                 Len(s.bytes) = h_sizes.envsz[j]

\* What CMDSIZE has to report for the host process.
CmdsizeReports ==
    /\ h_return = "Ok"
    /\ h_block.argc = 1 + Len(h_env.args)
    /\ h_block.argsz[0] = Len(h_env.path) + 1
    /\ h_block.envc = (IF Len(h_env.vars) < MAX_ENVC THEN Len(h_env.vars) ELSE MAX_ENVC)

\* C27: for any number of arguments and environment variables CMDSIZE
\* stores argsz[i] only for i < MAX_ARGC and envsz[j] only for j < MAX_ENVC,
\* and reports argc = 1 + the number of arguments, argsz[0] = the path's
\* length + 1 and envc = min(number of variables, MAX_ENVC).
C27_CmdsizeWithinBlock ==
    (h_pc = "done" /\ h_op = "CMDSIZE") =>
        /\ DOMAIN h_block.argsz \subseteq 0..(MAX_ARGC - 1)
        /\ DOMAIN h_block.envsz \subseteq 0..(MAX_ENVC - 1)
        /\ CmdsizeReports

(***************************************************************************)
(* Queue initialisation against the guest (checked under Spec).            *)
(***************************************************************************)
\* The thread at `pc` has not yet run init() on its queue.
BeforeInit(pc) == pc \in {"unborn", "init"}

\* C25: each worker thread's init() of its queue comes before the guest's
\* first access to that queue: the guest has enqueued no TX frame and
\* consumed no RX frame while the queue's thread has yet to run init(), and
\* no frame the guest enqueued is dropped by a reset of the TX counters.
C25_InitBeforeGuestAccess ==
    /\ BeforeInit(w_pc) => tx_enq = <<>>
    /\ BeforeInit(r_pc) => rx_queue.read = 0
    /\ tx_queue.written >= tx_queue.read
    /\ tx_queue.written = Len(tx_enq)

(***************************************************************************)
(* Segments against the registered memory (checked under SpecPlace; MiB).  *)
(***************************************************************************)
\* The guest sees the MiB at offset a of the host mapping at guest-physical
\* address a: a region holds it, at the same offset on both sides.
Backed(a) ==
    \E r \in n_regions :
        /\ r.guest_phys_addr <= a
        /\ a < r.guest_phys_addr + r.memory_size
        /\ r.userspace_addr - n_mem.host_address = r.guest_phys_addr - n_mem.guest_address

\* The end of the highest registered region.
HighestBacked ==
    CHOOSE top \in {r.guest_phys_addr + r.memory_size : r \in n_regions} :
        \A r \in n_regions : r.guest_phys_addr + r.memory_size <= top

SegmentsBacked ==
    \A k \in DOMAIN l_writes : \A a \in l_writes[k].start..(l_writes[k].end - 1) : Backed(a)

\* C26: when load_kernel returns Ok, every byte of every loaded segment lies
\* in memory a registered slot backs, and BootInfo.limit is no more than the
\* highest guest-physical address a slot backs.
C26_SegmentsInBackedMemory ==
    (l_result = "Ok" /\ l_raw.written) =>
        /\ SegmentsBacked
        /\ l_raw.limit <= HighestBacked

====
